---- MODULE Spec2Model ----
(***************************************************************************)
(* Ingestion core of the crypto-sentiment collector: the Dedup Key and the *)
(* insert-if-absent store (app/storage.py), the collection entry points    *)
(* (app/main.py, streamlit_app.py), the pagination loops and the Twitter   *)
(* fallback chain (app/scrapers).                                          *)
(*                                                                         *)
(* Python strings are TLA+ strings; Python ints that may also arrive as    *)
(* text (score) are decimal strings.  hashlib.sha1 is modelled as an       *)
(* injective tagging of its input (hash collisions are not modelled).      *)
(***************************************************************************)
EXTENDS Integers, Sequences, FiniteSets, TLC

VARIABLES
    POSTGRES_AVAILABLE, \* storage.py: psycopg2 could be imported (fixed at import time)
    dbUp,               \* the backend in use answers (server reachable / file writable)
    table,              \* committed rows of table posts, in commit order
    jsonl,              \* lines of data/scraped_posts.jsonl (the uid of each line)
    lock,               \* SQLite: the connection holding the write lock, 0 if none
    clock,              \* datetime.utcnow(), as a counter
    run,                \* per caller: the save_posts call in flight
    log,                \* completed calls, oldest first (history)
    calls,              \* number of calls started (history, bounds the model)
    kf,                 \* the Dedup Key function applied to two records
    pg,                 \* one pagination run
    ch                  \* one run of the Twitter fallback chain

storeVars == <<POSTGRES_AVAILABLE, dbUp, table, jsonl, lock, clock, run, log, calls>>
vars == <<POSTGRES_AVAILABLE, dbUp, table, jsonl, lock, clock, run, log, calls, kf, pg, ch>>

-----------------------------------------------------------------------------
(* Bounds *)

MaxBatch == 2       \* longest batch handed to save_posts
MaxCalls == 2       \* save_posts calls in one behaviour

-----------------------------------------------------------------------------
(* Python values *)

None == "<None>"                \* the value None
Missing == "<missing>"          \* a key the dict does not hold

Falsy(v) == v = None \/ v = ""
Or(v, d) == IF Falsy(v) THEN d ELSE v                 \* v or d
Str(v) == IF v = None THEN "None" ELSE v              \* str(v), f"{v}"
Get(post, key) == IF post[key] = Missing THEN None ELSE post[key]        \* post.get(key)
GetDefault(post, key, d) == IF post[key] = Missing THEN d ELSE post[key] \* post.get(key, d)

\* post.get(key) and post.get(key, d) of a key the dict may not hold at all
Field(post, key) == IF key \in DOMAIN post THEN Get(post, key) ELSE None
FieldDefault(post, key, d) == IF key \in DOMAIN post THEN GetDefault(post, key, d) ELSE d

RECURSIVE lstrip(_)
lstrip(s) == IF Len(s) > 0 /\ SubSeq(s, 1, 1) = " " THEN lstrip(SubSeq(s, 2, Len(s))) ELSE s

RECURSIVE rstrip(_)
rstrip(s) == IF Len(s) > 0 /\ SubSeq(s, Len(s), Len(s)) = " " THEN rstrip(SubSeq(s, 1, Len(s) - 1)) ELSE s

strip(s) == rstrip(lstrip(s))

Digits == "0123456789"
IsDigit(c) == \E d \in 1..10 : SubSeq(Digits, d, d) = c
DigitVal(c) == (CHOOSE d \in 1..10 : SubSeq(Digits, d, d) = c) - 1

\* int(v) raises ValueError unless v is a decimal literal
IntFails(v) == LET s == strip(v) IN Len(s) = 0 \/ \E k \in 1..Len(s) : ~IsDigit(SubSeq(s, k, k))

RECURSIVE IntVal(_)
IntVal(s) == IF Len(s) = 0 THEN 0 ELSE 10 * IntVal(SubSeq(s, 1, Len(s) - 1)) + DigitVal(SubSeq(s, Len(s), Len(s)))

int(v) == IntVal(strip(v))

-----------------------------------------------------------------------------
(* The Dedup Key *)

sha1(base) == "sha1(" \o base \o ")"

\* as if the key left the source out
_post_uid_nosource(post, source, method) ==
    LET post_id == strip(Str(Or(Get(post, "id"), "")))
    IN  sha1(IF post_id # "" THEN method \o ":" \o post_id
             ELSE method \o ":" \o Str(GetDefault(post, "title", ""))
                    \o ":" \o Str(GetDefault(post, "created_utc", "")))

_post_uid(post, source, method) ==
    LET post_id == strip(Str(Or(Get(post, "id"), "")))
        base == IF post_id # ""
                THEN source \o ":" \o method \o ":" \o post_id
                ELSE source \o ":" \o method \o ":" \o Str(GetDefault(post, "title", ""))
                       \o ":" \o Str(GetDefault(post, "created_utc", ""))
    IN  sha1(base)

-----------------------------------------------------------------------------
(* Records handed to save_posts *)

PostA == [id |-> "1", title |-> "T", score |-> "7", created_utc |-> "10",
          source |-> "reddit", method |-> "http"]
PostN == [id |-> None, title |-> "t", score |-> None, created_utc |-> None,
          source |-> Missing, method |-> Missing]
PostBad == [id |-> "2", title |-> "B", score |-> "1.5k", created_utc |-> "11",
            source |-> "reddit", method |-> "http"]

Posts == {PostA, PostN, PostBad}

Batches == UNION {[1..n -> Posts] : n \in 0..MaxBatch}

Procs == {1, 2}

\* who calls save_posts: the API endpoint /scrape, the dashboard's scrape_data,
\* the dashboard's "Sauvegarder en base" button (page_scraping), or a direct
\* call without source and method
Callers ==
    {[entry |-> "scrape", source |-> "reddit"],
     [entry |-> "scrape_data", source |-> "twitter"],
     [entry |-> "page_scraping", source |-> "reddit"],
     [entry |-> "save_posts", source |-> None]}

\* the source and method arguments each caller passes
EntryArgs(caller, posts) ==
    CASE caller.entry = "scrape" ->
            [source |-> caller.source,
             method |-> IF caller.source = "reddit" THEN "http" ELSE "selenium"]
      [] caller.entry = "scrape_data" ->
            [source |-> caller.source,
             method |-> IF caller.source = "reddit" THEN "http"
                        ELSE IF posts # <<>> THEN "selenium_login" ELSE "selenium"]
      [] caller.entry = "page_scraping" -> [source |-> caller.source, method |-> "scraper"]
      [] OTHER -> [source |-> None, method |-> None]

Min(a, b) == IF a < b THEN a ELSE b

\* what the caller of the entry point gets once save_posts returned or raised:
\* /scrape answers with a sample of the posts, scrape_data returns them, and
\* only the Twitter branch of scrape_data catches an exception (and returns [])
Response(caller, posts, outcome) ==
    CASE caller.entry = "scrape" ->
            IF outcome = "returned"
            THEN [kind |-> "returned", posts |-> SubSeq(posts, 1, Min(10, Len(posts)))]
            ELSE [kind |-> "raised", posts |-> <<>>]
      [] caller.entry = "scrape_data" ->
            IF outcome = "returned"
            THEN [kind |-> "returned", posts |-> posts]
            ELSE IF caller.source = "twitter"
            THEN [kind |-> "returned", posts |-> <<>>]
            ELSE [kind |-> "raised", posts |-> <<>>]
      [] OTHER -> [kind |-> outcome, posts |-> <<>>]

-----------------------------------------------------------------------------
(* The store *)

Idle == [pc |-> "idle"]

Keys(rows) == {rows[k].uid : k \in 1..Len(rows)}

\* as if a failed connection came back as None instead of raising
_get_connection_soft ==
    IF dbUp THEN [conn |-> "conn", db_type |-> IF POSTGRES_AVAILABLE THEN "postgres" ELSE "sqlite",
                  exc |-> ""]
    ELSE [conn |-> "none", db_type |-> "none", exc |-> ""]

\* storage.py _get_connection: PostgreSQL when psycopg2 is importable and the
\* server answers, else the SQLite fallback; sqlite3 is imported only when
\* psycopg2 is not, so the fallback raises NameError beside psycopg2
_get_connection ==
    IF POSTGRES_AVAILABLE /\ dbUp THEN [conn |-> "conn", db_type |-> "postgres", exc |-> ""]
    ELSE IF POSTGRES_AVAILABLE THEN [conn |-> "none", db_type |-> "sqlite", exc |-> "NameError"]
    ELSE IF dbUp THEN [conn |-> "conn", db_type |-> "sqlite", exc |-> ""]
    ELSE [conn |-> "none", db_type |-> "sqlite", exc |-> "OperationalError"]

\* what one pass of the loop of save_posts works on, c.posts[c.i]
p_source(source, post) == Or(Or(source, Get(post, "source")), "unknown")
p_method(method, post) == Or(Or(method, Get(post, "method")), "unknown")
uidOf(post, source, method) == _post_uid(post, p_source(source, post), p_method(method, post))
uid(c) == uidOf(c.posts[c.i], c.source, c.method)
ScoreFails(c) == IntFails(Or(Get(c.posts[c.i], "score"), "0"))
row(c) ==
    [uid |-> uid(c),
     id |-> Str(Or(Get(c.posts[c.i], "id"), "")),
     source |-> p_source(c.source, c.posts[c.i]),
     method |-> p_method(c.method, c.posts[c.i]),
     title |-> GetDefault(c.posts[c.i], "title", ""),
     text |-> FieldDefault(c.posts[c.i], "text", ""),
     human_label |-> Field(c.posts[c.i], "human_label"),
     score |-> int(Or(Get(c.posts[c.i], "score"), "0")),
     created_utc |-> Str(Or(Get(c.posts[c.i], "created_utc"), "")),
     scraped_at |-> c.scraped_at]

\* the keys of a whole batch (history: what the call is expected to store)
BatchKeys(c) == {uidOf(c.posts[k], c.source, c.method) : k \in 1..Len(c.posts)}

\* as if total reported the rows inserted
total_inserted(c) == c.inserted

\* "total" of the dict save_posts returns
total(c) == Len(c.posts)

\* as if a failing call committed what it had inserted (a commit in a finally)
Kept_all(pending) == pending

\* the rows of a transaction that outlive a call that raised: the connection
\* is dropped without commit and the transaction is rolled back
Kept(pending) == <<>>

\* the entry of log a finished call leaves; fresh is the number of keys of the
\* batch the store did not hold when the call ended
Finished(c, outcome, n_inserted, n_total, db_type, error, after) ==
    [caller |-> c.caller, posts |-> c.posts, source |-> c.source,
     method |-> c.method, outcome |-> outcome, inserted |-> n_inserted,
     total |-> n_total, db_type |-> db_type, error |-> error,
     rows_before |-> Len(table), rows_after |-> Len(after), alone |-> c.alone,
     staged |-> Len(c.pending),
     fresh |-> Cardinality(BatchKeys(c) \ Keys(table)),
     resp |-> Response(c.caller, c.posts, outcome)]

\* a call that raises: the connection is dropped uncommitted, SQLite and
\* PostgreSQL both roll its transaction back
Raise(p, error) ==
    /\ table' = table \o Kept(run[p].pending)
    /\ log' = Append(log, Finished(run[p], "raised", 0, 0, run[p].db_type, error, table'))
    /\ run' = [run EXCEPT ![p] = Idle]
    /\ lock' = IF lock = p THEN 0 ELSE lock
    /\ UNCHANGED <<POSTGRES_AVAILABLE, dbUp, jsonl, clock, calls>>

\* "if not posts": the batch is empty
EmptyBatch_never(posts) == FALSE

EmptyBatch(posts) == posts = <<>>

\* save_posts up to the loop: the early return on an empty batch, the connection
save_posts(p, caller, posts) ==
    /\ run[p].pc = "idle"
    /\ calls < MaxCalls
    /\ LET args == EntryArgs(caller, posts)
           others == {q \in Procs \ {p} : run[q].pc # "idle"}
           c == [pc |-> IF posts = <<>> THEN "commit" ELSE "insert", caller |-> caller, posts |-> posts,
                 source |-> args.source, method |-> args.method, i |-> 1,
                 inserted |-> 0, pending |-> <<>>, scraped_at |-> clock,
                 db_type |-> _get_connection.db_type, alone |-> others = {}]
           seen == [q \in Procs |-> IF q \in others
                                    THEN [run[q] EXCEPT !.alone = FALSE] ELSE run[q]]
       IN  IF EmptyBatch(posts)
           THEN /\ log' = Append(log, Finished(c, "returned", 0, 0,
                             IF POSTGRES_AVAILABLE THEN "postgres" ELSE "sqlite",
                             "", table))
                /\ run' = run
                /\ clock' = clock
           ELSE IF _get_connection.exc # ""
           THEN /\ log' = Append(log, Finished(c, "raised", 0, 0, c.db_type,
                             _get_connection.exc, table))
                /\ run' = run
                /\ clock' = clock
           ELSE IF _get_connection.conn = "none"
           THEN /\ log' = Append(log, Finished(c, "returned", 0, 0, "none",
                             "No database connection", table))
                /\ run' = run
                /\ clock' = clock
           ELSE /\ log' = log
                /\ run' = [seen EXCEPT ![p] = c]
                /\ clock' = clock + 1
    /\ calls' = calls + 1
    /\ UNCHANGED <<POSTGRES_AVAILABLE, dbUp, table, jsonl, lock>>

\* a caller hands a batch to save_posts
Begin(p) ==
    /\ \A q \in Procs : q < p => run[q].pc # "idle"    \* the first free worker takes it
    /\ \E caller \in Callers, posts \in Batches :
        /\ caller.entry = "page_scraping" => posts # <<>>
        /\ save_posts(p, caller, posts)
    /\ UNCHANGED <<kf, pg, ch>>

\* the callers whose open transaction holds an uncommitted row with this key
Holders(p, k) == {q \in Procs \ {p} : run[q].pc # "idle" /\ k \in Keys(run[q].pending)}

\* as if uid carried no PRIMARY KEY and writers never waited for each other
Blocked_never(p) == FALSE

\* the INSERT has to wait: SQLite for the write lock, PostgreSQL for the
\* transaction that inserted the same key to end
Blocked(p) ==
    /\ run[p].pc = "insert"
    /\ ~ScoreFails(run[p])
    /\ IF run[p].db_type = "sqlite" THEN lock \notin {0, p}
       ELSE uid(run[p]) \notin Keys(table) /\ Holders(p, uid(run[p])) # {}

\* as if the statement were INSERT OR REPLACE: every record counts as inserted
rowcount_replace(c) == 1

\* cur.rowcount of INSERT OR IGNORE / ON CONFLICT (uid) DO NOTHING
rowcount(c) == IF uid(c) \in Keys(table) \cup Keys(c.pending) THEN 0 ELSE 1

\* one pass of the loop of save_posts: the row, the INSERT, the JSONL line
Insert(p) ==
    /\ run[p].pc = "insert"
    /\ LET c == run[p]
       IN  IF ScoreFails(c) THEN Raise(p, "ValueError")
           ELSE IF ~dbUp THEN Raise(p, "OperationalError")
           ELSE /\ ~Blocked(p)
                /\ run' = [run EXCEPT ![p] =
                      [c EXCEPT !.inserted = c.inserted + rowcount(c),
                                !.pending = IF rowcount(c) = 1
                                            THEN Append(c.pending, row(c)) ELSE c.pending,
                                !.i = c.i + 1,
                                !.pc = IF c.i = Len(c.posts) THEN "commit" ELSE "insert"]]
                /\ jsonl' = IF rowcount(c) = 1 THEN Append(jsonl, uid(c)) ELSE jsonl
                /\ lock' = IF c.db_type = "sqlite" THEN p ELSE lock
                /\ UNCHANGED <<POSTGRES_AVAILABLE, dbUp, table, clock, log, calls>>
    /\ UNCHANGED <<kf, pg, ch>>

\* SQLite: the write lock was not released within the busy timeout
Busy(p) ==
    /\ Blocked(p)
    /\ run[p].db_type = "sqlite"
    /\ Raise(p, "OperationalError")
    /\ UNCHANGED <<kf, pg, ch>>

\* PostgreSQL: two transactions wait for each other's key, one is aborted
Deadlock(p) ==
    /\ Blocked(p)
    /\ run[p].db_type = "postgres"
    /\ \E q \in Holders(p, uid(run[p])) : Blocked(q) /\ p \in Holders(q, uid(run[q]))
    /\ Raise(p, "DeadlockDetected")
    /\ UNCHANGED <<kf, pg, ch>>

\* as if a conflicting key overwrote the stored row (an upsert)
on_conflict_update(rows, c) ==
    [k \in 1..Len(rows) |->
        IF \E j \in 1..Len(c.posts) : uid([c EXCEPT !.i = j]) = rows[k].uid
        THEN row([c EXCEPT !.i = CHOOSE j \in 1..Len(c.posts) :
                                    uid([c EXCEPT !.i = j]) = rows[k].uid])
        ELSE rows[k]]

\* ON CONFLICT (uid) DO NOTHING / INSERT OR IGNORE: the rows the table holds
\* after the statements of the call, whatever keys the batch repeated
on_conflict(rows, c) == rows

\* conn.commit(), conn.close() and the return
Commit(p) ==
    /\ run[p].pc = "commit"
    /\ LET c == run[p]
       IN  IF ~dbUp THEN Raise(p, "OperationalError")
           ELSE /\ table' = on_conflict(table, c) \o c.pending
                /\ log' = Append(log, Finished(c, "returned", c.inserted, total(c),
                                               c.db_type, "", table'))
                /\ run' = [run EXCEPT ![p] = Idle]
                /\ lock' = IF lock = p THEN 0 ELSE lock
                /\ UNCHANGED <<POSTGRES_AVAILABLE, dbUp, jsonl, clock, calls>>
    /\ UNCHANGED <<kf, pg, ch>>

\* the backend stops or starts answering
Outage ==
    /\ calls < MaxCalls \/ \E q \in Procs : run[q].pc # "idle"
    /\ dbUp' = ~dbUp
    /\ UNCHANGED <<POSTGRES_AVAILABLE, table, jsonl, lock, clock, run, log, calls>>
    /\ UNCHANGED <<kf, pg, ch>>

StoreStart(pgs, ups) ==
    /\ POSTGRES_AVAILABLE \in pgs
    /\ dbUp \in ups
    /\ table = <<>>
    /\ jsonl = <<>>
    /\ lock = 0
    /\ clock = 0
    /\ run = [p \in Procs |-> Idle]
    /\ log = <<>>
    /\ calls = 0

Off == [pc |-> "off"]

StoreInit == StoreStart(BOOLEAN, BOOLEAN)

Init ==
    /\ StoreInit
    /\ kf = Off
    /\ pg = Off
    /\ ch = Off

Next ==
    \/ \E p \in Procs : Begin(p)
    \/ \E p \in Procs : Insert(p)
    \/ \E p \in Procs : Busy(p)
    \/ \E p \in Procs : Deadlock(p)
    \/ \E p \in Procs : Commit(p)
    \/ Outage

Spec == Init /\ [][Next]_vars

-----------------------------------------------------------------------------
(* Properties of the store *)

Returned(e) == e.outcome = "returned"
SameCall(e1, e2) == e1.posts = e2.posts /\ e1.source = e2.source /\ e1.method = e2.method

\* calls k and k+1 of the log are the same call made twice in a row, nothing
\* else running, and both returned
InARow(k) ==
    /\ k + 1 <= Len(log)
    /\ SameCall(log[k], log[k + 1])
    /\ log[k].alone /\ log[k + 1].alone
    /\ Returned(log[k]) /\ Returned(log[k + 1])

\* C1 as stated: save_posts(B) twice in a row returns inserted = len(B), then
\* inserted = 0, and the second call leaves the row count as it was.
C1_TwiceLenThenZero ==
    \A k \in 1..Len(log) :
        InARow(k) =>
            /\ log[k].inserted = Len(log[k].posts)
            /\ log[k + 1].inserted = 0
            /\ log[k + 1].rows_after = log[k + 1].rows_before

\* C1 amended: save_posts(B) twice in a row returns, the first time, the number
\* of distinct Dedup Keys of B the store did not hold yet, then inserted = 0,
\* and the second call leaves the row count as it was.
C1_TwiceFreshThenZero ==
    \A k \in 1..Len(log) :
        InARow(k) =>
            /\ log[k].inserted = log[k].fresh
            /\ log[k + 1].inserted = 0
            /\ log[k + 1].rows_after = log[k + 1].rows_before

C1_Witness ==
    \E k \in 1..Len(log) :
        InARow(k) /\ log[k].inserted = Len(log[k].posts) /\ log[k].inserted > 0
                  /\ log[k + 1].inserted = 0

\* C2: whatever entry points collected it, a post (same source, same
\* source-native id) has exactly one row in the store.
C2_OneRowPerPost ==
    \A i, j \in 1..Len(table) :
        (table[i].source = table[j].source /\ table[i].id = table[j].id /\ table[i].id # "")
            => i = j

RECURSIVE SumInserted(_)
SumInserted(l) ==
    IF l = <<>> THEN 0
    ELSE (IF Returned(Head(l)) THEN Head(l).inserted ELSE 0) + SumInserted(Tail(l))

\* C3: under every interleaving of concurrent save_posts calls the store holds
\* each Dedup Key at most once and every stored row was counted in inserted by
\* exactly one call.
C3_ConcurrentInsertOnce ==
    /\ Cardinality(Keys(table)) = Len(table)
    /\ SumInserted(log) = Len(table)

C3_Witness ==
    \E j, k \in 1..Len(log) :
        /\ j < k
        /\ Returned(log[j]) /\ Returned(log[k])
        /\ ~log[j].alone /\ ~log[k].alone
        /\ BatchKeys(log[j]) \cap BatchKeys(log[k]) # {}
        /\ log[j].inserted + log[k].inserted = Len(table)

\* C5: a call that returns reports total = len(batch) and 0 <= inserted <= total,
\* adds exactly inserted rows to the store, and inserted is the number of keys of
\* the batch the store did not hold, each counted once.
C5_InsertedCountsNewRows ==
    \A k \in 1..Len(log) :
        Returned(log[k]) =>
            /\ log[k].total = Len(log[k].posts)
            /\ 0 <= log[k].inserted /\ log[k].inserted <= log[k].total
            /\ log[k].rows_after = log[k].rows_before + log[k].inserted
            /\ log[k].inserted = log[k].fresh

C5_Witness ==
    \E k \in 1..Len(log) :
        Returned(log[k]) /\ 0 < log[k].inserted /\ log[k].inserted < log[k].total

\* C6: a call that fails part-way through its batch leaves none of the rows it
\* had inserted in the store, and no row of a call still running is in the store.
C6_BatchAtomic ==
    /\ \A k \in 1..Len(log) :
           log[k].outcome = "raised" => log[k].rows_after = log[k].rows_before
    /\ \A p \in Procs :
           run[p].pc # "idle" => Keys(run[p].pending) \cap Keys(table) = {}

C6_Witness ==
    \E k \in 1..Len(log) :
        log[k].outcome = "raised" /\ log[k].error = "ValueError" /\ log[k].staged > 0

C8_FetchedPostsReturned ==
    \A k \in 1..Len(log) :
        (log[k].caller.entry \in {"scrape", "scrape_data"} /\ log[k].outcome = "raised")
            => (log[k].resp.kind = "returned" /\ log[k].resp.posts = log[k].posts)

-----------------------------------------------------------------------------
(* The Dedup Key as a function: _post_uid applied to two records *)

\* the source tags and some of the method tags the callers of save_posts pass,
\* and "unknown", which save_posts substitutes for one that is missing
KeySources == {"reddit", "twitter", "telegram", "stocktwits", "4chan", "bitcointalk",
               "github", "bluesky", "tiktok", "youtube", "unknown"}
KeyMethods == {"http", "scraper"}

\* records, malformed ones included: id, title and created_utc missing, None or
\* empty, and text that itself looks like a piece of a key
KeyRecords ==
    [id : {Missing, "", "1", "http:1"}, title : {Missing, "1"},
     created_utc : {None, "1"}]

KeyInit ==
    /\ StoreStart({FALSE}, {TRUE})
    /\ pg = Off
    /\ ch = Off
    /\ kf \in [pc : {"args"}, s1 : KeySources, s2 : KeySources, m1 : KeyMethods,
               m2 : KeyMethods, r1 : KeyRecords, r2 : KeyRecords, k1 : {""}, k2 : {""}]

\* the key of each record
KeyApply ==
    /\ kf.pc = "args"
    /\ kf' = [kf EXCEPT !.pc = "done",
                        !.k1 = _post_uid(kf.r1, kf.s1, kf.m1),
                        !.k2 = _post_uid(kf.r2, kf.s2, kf.m2)]
    /\ UNCHANGED <<storeVars, pg, ch>>

KeyNext == KeyApply

SpecKey == KeyInit /\ [][KeyNext]_vars

\* C4: _post_uid returns a key for every record, also one whose id, title and
\* created_utc are missing or empty, and two records saved under different
\* sources never get the same key.
C4_KeyTotalSeparatesSources ==
    kf.pc = "done" =>
        /\ Len(kf.k1) > 0 /\ Len(kf.k2) > 0
        /\ kf.s1 # kf.s2 => kf.k1 # kf.k2

C4_Witness ==
    /\ kf.pc = "done"
    /\ kf.s1 # kf.s2 /\ kf.m1 = kf.m2 /\ kf.r1 = kf.r2
    /\ kf.r1.id = Missing /\ kf.r1.title = Missing /\ kf.r1.created_utc = None
    /\ kf.k1 # kf.k2

---------------------------------------------------------------------------
\* Pagination loops: scrape_reddit_http, _scrape_telegram_paginated_impl and
\* the public loop of _scrape_bluesky_impl.  The source answers each fetch
\* with any response; it serves at most MaxPages non-terminal ones, after
\* which every response is a terminal page, a refusal or an error.

MaxPages == 3
MaxPageLen == 2
MaxLimit == 2

NoDay == 0
LastDay == 3

\* a date argument datetime.fromisoformat does not accept
BadDay == -1
Malformed(day) == day = BadDay

\* what one entry of a page holds: its id (or uri), the day of its timestamp and
\* its text; "" and NoDay stand for a field the entry does not have
PageItems ==
    { [id |-> "a", day |-> 2, text |-> "alpha", score |-> "4"],
      [id |-> "b", day |-> 1, text |-> "bravo", score |-> "0"],
      [id |-> "", day |-> NoDay, text |-> "alpha", score |-> "1"],
      [id |-> "c", day |-> 3, text |-> "", score |-> "2"] }

Pages == UNION {[1..n -> PageItems] : n \in 0..MaxPageLen}

Cursors == {None, "t3_x"}

Take(seq, n) == SubSeq(seq, 1, Min(Len(seq), n))

PageDone(s, result) == [s EXCEPT !.pc = "done", !.result = result]

\* the cuts the scrapers apply to a text: Bluesky's title and text, a tweet
BsTitleMax == 300
BsTextMax == 5000
TweetMax == 500

\* ---- Reddit

RedditLimit == 1000

RedditResponses ==
    [kind : {"error"}, children : {<<>>}, after : {None}]
        \cup [kind : {"page"}, children : Pages, after : Cursors]

RedditTerminal(r) == r.kind = "error" \/ r.children = <<>> \/ Falsy(r.after)

\* as if the filter let every post through
filter_posts_by_date_off(posts, start_date, end_date) == posts

filter_posts_by_date(posts, start_date, end_date) ==
    IF start_date = NoDay /\ end_date = NoDay
    THEN posts
    ELSE SelectSeq(posts, LAMBDA post :
            /\ post.created_utc # NoDay
            /\ ~(start_date # NoDay /\ post.created_utc < start_date)
            /\ ~(end_date # NoDay /\ post.created_utc > end_date))

fetch_limit(s) ==
    Min(IF s.start_date # NoDay \/ s.end_date # NoDay THEN s.limit * 2 ELSE s.limit,
        RedditLimit)

\* as if the record lost its id
reddit_post_noid(child) ==
    [id |-> None, title |-> child.text, score |-> child.score,
     created_utc |-> child.day, source |-> "reddit", method |-> "http"]

reddit_post(child) ==
    [id |-> IF child.id = "" THEN None ELSE child.id, title |-> child.text,
     text |-> FieldDefault(child, "selftext", ""),
     score |-> child.score, created_utc |-> child.day,
     source |-> "reddit", method |-> "http", human_label |-> None]

\* as if the public function had no except clause
Caught_not(exc) == [error |-> exc, raised |-> TRUE]

\* "except Exception as e" of a public scrape function: the exception ends there
Caught(exc) == [error |-> exc, raised |-> FALSE]

\* after the loop: the filter, which parses the date arguments first, and the
\* cut to limit; scrape_reddit turns the ValueError of a malformed date into []
reddit_return(s) ==
    IF Malformed(s.start_date) \/ Malformed(s.end_date)
    THEN PageDone(Caught("ValueError") @@ s, <<>>)
    ELSE PageDone(s, Take(filter_posts_by_date(s.posts, s.start_date, s.end_date),
                          s.limit))

\* as if every failed fetch were retried on the other host
reddit_retry_always(base) == TRUE

\* the except branch: retry on www.reddit.com after a failure of old.reddit.com
reddit_retry(base) == base = "old"

\* the except branch after the retry: break, and on to the return with the
\* posts collected so far
reddit_break(s) == reddit_return(s)

\* one pass of the while loop on response r; the return is part of the pass
\* that leaves the loop
scrape_reddit_http(s, r) ==
    IF r.kind = "error"
    THEN IF reddit_retry(s.base) THEN [s EXCEPT !.base = "www"] ELSE reddit_break(s)
    ELSE IF r.children = <<>>
    THEN reddit_return(s)
    ELSE LET n == Min(Len(r.children), fetch_limit(s) - Len(s.posts))
             got == [k \in 1..n |-> reddit_post(r.children[k])]
             s1 == [s EXCEPT !.posts = s.posts \o got, !.after = r.after]
         IN  IF Falsy(r.after) THEN reddit_return(s1)
             ELSE IF Len(s1.posts) < fetch_limit(s) THEN [s1 EXCEPT !.page = s.page + 1]
             ELSE reddit_return([s1 EXCEPT !.page = s.page + 1])

\* the source's side of a fetch
Served(s, terminal) ==
    [s EXCEPT !.fetches = s.fetches + 1,
              !.term = IF terminal THEN s.term + 1 ELSE s.term,
              !.patience = IF terminal THEN s.patience ELSE s.patience - 1]

\* history of the pages served: whether they came strictly newest-first, every
\* entry dated, and the fetch that brought the first entry older than start_date
Noted(s, items) ==
    LET days == [k \in 1..Len(items) |-> items[k].day]
    IN  [s EXCEPT
          !.ordered = /\ s.ordered
                      /\ \A k \in 1..Len(days) :
                            /\ days[k] # NoDay
                            /\ days[k] < (IF k = 1 THEN s.low ELSE days[k - 1]),
          !.low = IF days = <<>> THEN s.low ELSE days[Len(days)],
          !.stale_at = IF /\ s.stale_at = 0 /\ s.start_date # NoDay
                          /\ \E k \in 1..Len(days) :
                                days[k] # NoDay /\ days[k] < s.start_date
                       THEN s.fetches ELSE s.stale_at]

\* history of the cursors the fetches answered with a page were sent with
Used(s, r, cursor) ==
    IF r.kind = "page" /\ ~Falsy(cursor)
    THEN [s EXCEPT !.repeat = s.repeat \/ cursor \in s.used,
                   !.used = s.used \cup {cursor}]
    ELSE s

RedditPage ==
    /\ pg.pc = "loop" /\ pg.loop = "reddit"
    /\ \E r \in RedditResponses :
        /\ ~RedditTerminal(r) => pg.patience > 0
        /\ pg' = scrape_reddit_http(
                    Used(Noted(Served(pg, RedditTerminal(r)), r.children), r, pg.after), r)
    /\ UNCHANGED <<storeVars, kf, ch>>


\* ---- Telegram

PageSize == 20
PageMargin == 50
MinTextLen == 5
EmptyPagesStop == 3
ForceStop == 999

TelegramResponses ==
    [kind : {"error"}, wraps : {<<>>}] \cup [kind : {"page"}, wraps : Pages]

TelegramTerminal(r) == r.kind = "error" \/ r.wraps = <<>>

max_pages(s) == (s.limit \div PageSize) + PageMargin

\* as if the messages went back uncut
tg_return_all(s) == PageDone(s, s.all_messages)

\* return all_messages[:max_messages]
tg_return(s) == PageDone(s, Take(s.all_messages, s.limit))

\* the for loop over the wraps of one page
RECURSIVE tg_wraps(_, _, _)
tg_wraps(s, acc, wraps) ==
    IF wraps = <<>> THEN acc
    ELSE LET wrap == Head(wraps)
             a1 == IF wrap.id # "" THEN [acc EXCEPT !.oldest_id = wrap.id] ELSE acc
             message_id == IF wrap.id # "" THEN wrap.id ELSE None
             seen == IF wrap.id # ""
                     THEN \E k \in 1..Len(acc.all_messages) :
                            acc.all_messages[k].id = message_id
                     ELSE \E k \in 1..Len(acc.all_messages) :
                            acc.all_messages[k].text = wrap.text
             filtering == s.start_date # NoDay \/ s.end_date # NoDay
         IN  IF Len(wrap.text) < MinTextLen THEN tg_wraps(s, a1, Tail(wraps))
             ELSE IF seen THEN tg_wraps(s, a1, Tail(wraps))
             ELSE IF filtering /\ wrap.day = NoDay THEN tg_wraps(s, a1, Tail(wraps))
             ELSE IF Malformed(s.start_date) THEN tg_wraps(s, a1, Tail(wraps))
             ELSE IF /\ Malformed(s.end_date)
                     /\ ~(s.start_date # NoDay /\ wrap.day < s.start_date)
             THEN tg_wraps(s, a1, Tail(wraps))
             ELSE IF filtering /\ s.start_date # NoDay /\ wrap.day < s.start_date
             THEN tg_wraps(s, a1, Tail(wraps))
             ELSE IF filtering /\ s.end_date # NoDay /\ wrap.day > s.end_date
             THEN [a1 EXCEPT !.consecutive_empty = ForceStop]
             ELSE tg_wraps(s,
                    [a1 EXCEPT !.all_messages =
                                  Append(acc.all_messages,
                                         [id |-> message_id, text |-> wrap.text,
                                          date |-> wrap.day]),
                               !.new_messages = acc.new_messages + 1],
                    Tail(wraps))

_scrape_telegram_paginated_impl(s, r) ==
    IF r.kind = "error" \/ r.wraps = <<>>
    THEN tg_return(s)
    ELSE LET acc == tg_wraps(s, [all_messages |-> s.all_messages, new_messages |-> 0,
                                 oldest_id |-> None,
                                 consecutive_empty |-> s.consecutive_empty], r.wraps)
             ce == IF acc.new_messages = 0 THEN acc.consecutive_empty + 1 ELSE 0
             s1 == [s EXCEPT !.all_messages = acc.all_messages,
                             !.consecutive_empty = ce]
             s2 == [s1 EXCEPT !.before_id = acc.oldest_id, !.page = s.page + 1]
         IN  IF acc.new_messages = 0 /\ ce >= EmptyPagesStop THEN tg_return(s1)
             ELSE IF Falsy(acc.oldest_id) THEN tg_return(s1)
             ELSE IF Len(s2.all_messages) < s.limit /\ s2.page < max_pages(s) THEN s2
             ELSE tg_return(s2)

TelegramPage ==
    /\ pg.pc = "loop" /\ pg.loop = "telegram"
    /\ \E r \in TelegramResponses :
        /\ ~TelegramTerminal(r) => pg.patience > 0
        /\ pg' = _scrape_telegram_paginated_impl(
                    Used(Noted(Served(pg, TelegramTerminal(r)), r.wraps), r, pg.before_id),
                    r)
    /\ UNCHANGED <<storeVars, kf, ch>>

\* ---- Bluesky

BlueskyResponses ==
    [kind : {"denied", "error"}, posts : {<<>>}, cursor : {None}]
        \cup [kind : {"page"}, posts : Pages, cursor : Cursors]

BlueskyTerminal(r) == r.kind # "page" \/ r.posts = <<>> \/ Falsy(r.cursor)

\* None for a post without text
_post_view_to_dict(p) ==
    IF p.text = "" THEN None
    ELSE [id |-> p.id, title |-> Take(p.text, BsTitleMax), text |-> Take(p.text, BsTextMax),
          created_utc |-> p.day]

bs_return(s) == PageDone(s, Take(s.posts, s.limit))

\* the for loop over the posts of one page
RECURSIVE bs_items(_, _)
bs_items(s, items) ==
    IF items = <<>> THEN s
    ELSE LET p == Head(items)
             uri == p.id
             view == _post_view_to_dict(p)
             s1 == [s EXCEPT !.seen_uris = s.seen_uris \cup {uri},
                             !.posts = IF p.text = "" THEN s.posts
                                       ELSE Append(s.posts, view)]
         IN  IF uri \in s.seen_uris THEN bs_items(s, Tail(items))
             ELSE IF Len(s1.posts) >= s.limit THEN s1
             ELSE bs_items(s1, Tail(items))

\* the test that ends the loop after a page
bs_last_never(cursor, items) == FALSE

bs_last(cursor, items) == Falsy(cursor) \/ items = <<>>

_scrape_bluesky_impl(s, r) ==
    IF r.kind # "page"
    THEN bs_return(s)
    ELSE LET s1 == [bs_items(s, r.posts) EXCEPT !.cursor = r.cursor]
         IN  IF bs_last(r.cursor, r.posts) THEN bs_return(s1)
             ELSE IF Len(s1.posts) < s.limit THEN s1
             ELSE bs_return(s1)

BlueskyPage ==
    /\ pg.pc = "loop" /\ pg.loop = "bluesky"
    /\ \E r \in BlueskyResponses :
        /\ ~BlueskyTerminal(r) => pg.patience > 0
        /\ pg' = _scrape_bluesky_impl(Used(Served(pg, BlueskyTerminal(r)), r, pg.cursor), r)
    /\ UNCHANGED <<storeVars, kf, ch>>

\* ---- the three loops, each started with a limit and a date window

Limits == 1..MaxLimit
Windows ==
    {<<NoDay, NoDay>>, <<2, NoDay>>, <<NoDay, 2>>, <<NoDay, 1>>, <<BadDay, NoDay>>}

PageStarts ==
    { [loop |-> "reddit", pc |-> "loop", limit |-> l, start_date |-> w[1],
       end_date |-> w[2], posts |-> <<>>, after |-> None, page |-> 0, base |-> "old",
       error |-> "", raised |-> FALSE,
       ordered |-> TRUE, low |-> LastDay + 1, stale_at |-> 0,
       used |-> {}, repeat |-> FALSE,
       fetches |-> 0, term |-> 0, patience |-> MaxPages, result |-> <<>>]
        : l \in Limits, w \in Windows }
    \cup
    { [loop |-> "telegram", pc |-> "loop", limit |-> l, start_date |-> w[1],
       end_date |-> w[2], all_messages |-> <<>>, before_id |-> None, page |-> 0,
       consecutive_empty |-> 0,
       ordered |-> TRUE, low |-> LastDay + 1, stale_at |-> 0,
       used |-> {}, repeat |-> FALSE,
       fetches |-> 0, term |-> 0, patience |-> MaxPages, result |-> <<>>]
        : l \in Limits, w \in Windows }
    \cup
    { [loop |-> "bluesky", pc |-> "loop", limit |-> l, posts |-> <<>>,
       seen_uris |-> {}, cursor |-> None, used |-> {}, repeat |-> FALSE,
       fetches |-> 0, term |-> 0, patience |-> MaxPages, result |-> <<>>]
        : l \in Limits }

PageInit ==
    /\ StoreStart({FALSE}, {TRUE})
    /\ kf = Off
    /\ ch = Off
    /\ pg \in PageStarts

PageNext ==
    \/ RedditPage
    \/ TelegramPage
    \/ BlueskyPage

SpecPage == PageInit /\ [][PageNext]_vars

\* the terminal, refused or failed responses a loop takes before it stops
TermMax(loop) == IF loop = "reddit" THEN 2 ELSE 1

\* C9: once the source only answers with a terminal page, a refusal or an error,
\* each of the Reddit HTTP, Telegram paginated and Bluesky loops stops: it never
\* fetches more than the non-terminal pages served plus one such response (two
\* for Reddit, whose first failure moves it to the other host), whatever the
\* pages held.
C9_PaginationStops ==
    pg.pc # "off" =>
        /\ pg.term <= TermMax(pg.loop)
        /\ pg.fetches <= MaxPages + TermMax(pg.loop)
        /\ (pg.loop # "reddit" /\ pg.term = 1) => pg.pc = "done"
        /\ (pg.loop = "reddit" /\ pg.term = 2) => pg.pc = "done"

\* a Bluesky run that took every page the source had, found nothing new in any
\* of them and stopped at the refusal
C9_Witness ==
    /\ pg.pc = "done" /\ pg.loop = "bluesky"
    /\ pg.fetches = MaxPages + 1 /\ pg.term = 1
    /\ pg.result = <<>>


---------------------------------------------------------------------------
\* The Twitter chain: scrape_twitter tries the login search, falls back to the
\* public profiles, and the entry point saves what came back.

ScrollSize == 10
MaxScrolls == 200
TwitterLimit == 2000
NoLoginLimit == 100
ProfileMargin == 5
MaxAccounts == 5

MaxTweets == 10

TweetIds == <<"90", "91", "92", "93", "94", "95", "96", "97", "98", "99", "100", "101">>

\* the k-th tweet of the site, as parse_tweets builds it
Tweet(k) == [id |-> TweetIds[k], title |-> "bitcoin ada up", score |-> "3",
             created_utc |-> IF k = 1 THEN None ELSE "12",
             source |-> "twitter", method |-> "selenium"]
TweetA == Tweet(1)
TweetB == Tweet(2)
Tweets == {Tweet(k) : k \in 1..MaxTweets}

\* how many tweets one page or profile can bring
RunSizes == {0, 1, 2, 5, MaxTweets}

\* what parse_tweets can bring: tweets not seen yet, each once, the next ones of
\* the site in order
TweetRuns(seen_ids) ==
    LET new == {k \in 1..MaxTweets : TweetIds[k] \notin seen_ids}
        first == IF new = {} THEN 1 ELSE CHOOSE k \in new : \A j \in new : k <= j
    IN  {[i \in 1..n |-> Tweet(first + i - 1)] :
            n \in {m \in RunSizes : m <= Cardinality(new)}}

TwLimits == {1, ScrollSize}
Queries == {"bitcoin", "ada"}

TwCallers ==
    {[entry |-> "scrape", source |-> "twitter"],
     [entry |-> "scrape_data", source |-> "twitter"]}

get_crypto_accounts(query) ==
    LET general == <<"whale_alert", "CoinDesk", "Cointelegraph", "BitcoinMagazine">>
        accounts == IF query = "bitcoin"
                    THEN general \o <<"saborskater", "michael_saylor", "DocumentingBTC">>
                    ELSE general
    IN  Take(accounts, MaxAccounts)

\* scrape_twitter returns posts to the entry point
tw_return(s, posts) ==
    [s EXCEPT !.pc = "save", !.posts = posts,
              !.produced = IF posts = <<>> THEN "" ELSE s.trying]

\* scrape_twitter_no_login begins
no_login_start(s, ret, limit) ==
    [s EXCEPT !.pc = "no_login", !.trying = "no_login",
              !.ret = ret, !.nl_limit = Min(limit, NoLoginLimit),
              !.account = 1, !.all_posts = <<>>, !.seen_ids = {},
              !.scans = s.scans + 1]

\* scrape_twitter after scrape_twitter_with_login returned result
with_login_return(s, result) ==
    IF result # <<>> THEN tw_return(s, result)
    ELSE no_login_start(s, "outer", s.limit)

scrape_twitter ==
    /\ ch.pc = "scrape_twitter"
    /\ ch' = IF ~ch.SELENIUM_OK
             THEN tw_return([ch EXCEPT !.blocked = FALSE, !.clean = FALSE], <<>>)
             ELSE IF ch.TWITTER_NO_LOGIN THEN no_login_start(ch, "outer", ch.limit)
             ELSE IF ch.creds THEN [ch EXCEPT !.pc = "with_login", !.trying = "login"]
             ELSE no_login_start(ch, "outer", ch.limit)
    /\ UNCHANGED <<storeVars, kf, pg>>

\* scrape_twitter_with_login up to the search: the driver, the cookies, the login
scrape_twitter_with_login ==
    /\ ch.pc = "with_login"
    /\ \E o \in {"no_driver", "refused", "logged_in"} :
        ch' = CASE o = "no_driver" ->
                     with_login_return([ch EXCEPT !.blocked = FALSE, !.clean = FALSE,
                                                  !.login = o], <<>>)
                [] o = "refused" ->
                     no_login_start([ch EXCEPT !.login = o, !.clean = FALSE], "inner",
                                    Min(Min(ch.limit, TwitterLimit), NoLoginLimit))
                [] OTHER -> [ch EXCEPT !.pc = "search", !.blocked = FALSE, !.login = o]
    /\ UNCHANGED <<storeVars, kf, pg>>

max_scrolls(limit) == Min(limit \div ScrollSize, MaxScrolls)

\* the search page and the scroll loop of scrape_twitter_with_login
twitter_search ==
    /\ ch.pc = "search"
    /\ \E o \in [kind : {"wall", "exception"}, tweets : {<<>>}]
                  \cup [kind : {"page"}, tweets : TweetRuns({})] :
        ch' = IF o.kind # "page"
              THEN no_login_start([ch EXCEPT !.clean = FALSE], "inner",
                                  Min(Min(ch.limit, TwitterLimit), NoLoginLimit))
              ELSE with_login_return(ch,
                     Take(IF max_scrolls(Min(ch.limit, TwitterLimit)) = 0 THEN <<>>
                          ELSE o.tweets, Min(ch.limit, TwitterLimit)))
    /\ UNCHANGED <<storeVars, kf, pg>>

\* one pass of the loop of scrape_twitter_no_login: scrape_twitter_profile on
\* the next account; the pass that ends the loop returns
scrape_twitter_profile ==
    /\ ch.pc = "no_login"
    /\ \E o \in [kind : {"no_driver", "missing", "wall"}, tweets : {<<>>}]
                  \cup [kind : {"page"}, tweets : TweetRuns(ch.seen_ids)] :
        LET crypto_accounts == get_crypto_accounts(ch.query)
            n == IF Len(crypto_accounts) > 1 THEN Len(crypto_accounts) ELSE 1
            pts == Take(o.tweets, (ch.nl_limit \div n) + ProfileMargin)
            s1 == [ch EXCEPT !.all_posts = ch.all_posts \o pts,
                             !.seen_ids = ch.seen_ids \cup
                                            {o.tweets[k].id : k \in 1..Len(o.tweets)},
                             !.account = ch.account + 1,
                             !.blocked = ch.blocked /\ o.kind = "wall",
                             !.clean = ch.clean /\ o.kind = "page"]
            all_posts == Take(s1.all_posts, ch.nl_limit)
        IN  ch' = IF s1.account <= Len(crypto_accounts) /\ Len(s1.all_posts) < ch.nl_limit
                  THEN s1
                  ELSE IF ch.ret = "inner" THEN with_login_return(s1, all_posts)
                  ELSE tw_return(s1, all_posts)
    /\ UNCHANGED <<storeVars, kf, pg>>

\* the entry point hands the result to save_posts
ChainSave ==
    /\ ch.pc = "save"
    /\ save_posts(1, ch.caller, ch.posts)
    /\ ch' = [ch EXCEPT !.pc = "saving"]
    /\ UNCHANGED <<kf, pg>>

\* the same request once more, after a run that brought nothing
ChainAgain ==
    /\ ch.pc = "saving" /\ ch.round = 1 /\ Len(log) = 1
    /\ ch.posts = <<>>
    /\ ch' = [ch EXCEPT !.pc = "scrape_twitter", !.round = 2,
                        !.first_blocked = ch.blocked, !.blocked = TRUE, !.clean = TRUE,
                        !.ret = "", !.nl_limit = 0, !.account = 0, !.all_posts = <<>>,
                        !.seen_ids = {}, !.scans = 0, !.trying = "", !.produced = "",
                        !.login = ""]
    /\ UNCHANGED <<storeVars, kf, pg>>

ChainStarts ==
    [pc : {"scrape_twitter"}, caller : TwCallers, query : Queries, limit : TwLimits,
     creds : BOOLEAN, TWITTER_NO_LOGIN : BOOLEAN, SELENIUM_OK : BOOLEAN,
     ret : {""}, nl_limit : {0}, account : {0}, all_posts : {<<>>}, seen_ids : {{}},
     posts : {<<>>}, blocked : {TRUE}, scans : {0},
     trying : {""}, produced : {""}, login : {""},
     clean : {TRUE}, round : {1}, first_blocked : {FALSE}]

ChainInit ==
    /\ StoreStart(BOOLEAN, BOOLEAN)
    /\ kf = Off
    /\ pg = Off
    /\ ch \in ChainStarts

ChainNext ==
    \/ scrape_twitter
    \/ scrape_twitter_with_login
    \/ twitter_search
    \/ scrape_twitter_profile
    \/ ChainSave
    \/ ChainAgain
    \/ \E p \in Procs : Insert(p)
    \/ \E p \in Procs : Commit(p)
    \/ Outage

SpecChain == ChainInit /\ [][ChainNext]_vars

\* C10: when every access method of Twitter was refused on its first attempt
\* (the login, if one was tried, and every public profile showed a login wall),
\* the run hands an empty list to save_posts, which returns inserted = 0 and
\* total = 0 without touching the store, and the entry point answers with zero
\* posts and no error.
C10_AllBlockedZeroNoError ==
    (ch.pc \in {"save", "saving"} /\ ch.blocked) =>
        /\ ch.posts = <<>>
        /\ ch.pc = "saving" =>
            /\ Len(log) = ch.round
            /\ log[ch.round].outcome = "returned" /\ log[ch.round].resp.kind = "returned"
            /\ log[ch.round].resp.posts = <<>>
            /\ log[ch.round].inserted = 0 /\ log[ch.round].total = 0
            /\ Len(table) = SumInserted(log) /\ run[1].pc = "idle"

\* the login was refused, both profile scans met the wall on every account, and
\* /scrape answered while the database was down
C10_Witness ==
    /\ ch.pc = "saving" /\ ch.blocked
    /\ ch.creds /\ ~ch.TWITTER_NO_LOGIN /\ ch.scans = 2
    /\ ch.caller.entry = "scrape" /\ ~dbUp
    /\ Len(log) = 1 /\ log[1].outcome = "returned" /\ log[1].inserted = 0


\* C11: when the login (the primary method) is refused at once and the public
\* profiles (the fallback) bring 10 tweets, the run reports 10 posts and the
\* method it reports and saves them under is not the login method's.
C11_FallbackMethodReported ==
    (/\ ch.pc = "saving" /\ ch.login = "refused" /\ ch.produced = "no_login"
     /\ Len(ch.posts) = 10 /\ Len(log) = 1 /\ log[1].outcome = "returned") =>
        /\ log[1].total = 10
        /\ log[1].method # "selenium_login"


---------------------------------------------------------------------------
\* A whole run of /scrape on Reddit, made twice: scrape_reddit_http pages
\* through a source that holds n pages of k posts, the result goes to
\* save_posts, and the identical request is sent again.

ScenarioPages == 3
ScenarioPageLen == 40
ScenarioLimit == 100
MinLimit == 10
Rounds == 2

RECURSIVE ToStr(_)
ToStr(n) ==
    IF n < 10 THEN SubSeq(Digits, n + 1, n + 1)
    ELSE ToStr(n \div 10) \o SubSeq(Digits, (n % 10) + 1, (n % 10) + 1)

\* the i-th post of the source, as a child of the listing; its timestamp is
\* written the way the store reads it
RunChild(i) == [id |-> "x" \o ToStr(i), day |-> "1700000000", text |-> "post",
                score |-> "1"]

RunCursor(j) == "t3_x" \o ToStr(j)

\* the page the source serves for the cursor of the request
RunServe(s) ==
    LET j == IF Falsy(s.after) THEN 1
             ELSE 1 + CHOOSE m \in 1..s.n : RunCursor(m * s.k) = s.after
    IN  IF j > s.n
        THEN [kind |-> "page", children |-> <<>>, after |-> None]
        ELSE [kind |-> "page",
              children |-> [i \in 1..s.k |-> RunChild((j - 1) * s.k + i)],
              after |-> IF j = s.n /\ s.done = "no_cursor" THEN None
                        ELSE RunCursor(j * s.k)]

RunFetch ==
    /\ pg.pc = "loop" /\ pg.loop = "run"
    /\ pg' = scrape_reddit_http(Served(pg, RedditTerminal(RunServe(pg))), RunServe(pg))
    /\ UNCHANGED <<storeVars, kf, ch>>

RunCaller == [entry |-> "scrape", source |-> "reddit"]

\* /scrape hands the posts to save_posts
RunSave ==
    /\ pg.pc = "done" /\ pg.loop = "run"
    /\ save_posts(1, RunCaller, pg.result)
    /\ pg' = [pg EXCEPT !.pc = "saving"]
    /\ UNCHANGED <<kf, ch>>

\* the same request once more
RunAgain ==
    /\ pg.pc = "saving" /\ pg.loop = "run"
    /\ Len(log) = pg.round /\ pg.round < Rounds
    /\ pg' = [pg EXCEPT !.pc = "loop", !.round = pg.round + 1, !.posts = <<>>,
                        !.after = None, !.page = 0, !.base = "old", !.result = <<>>,
                        !.fetches = 0, !.term = 0]
    /\ UNCHANGED <<storeVars, kf, ch>>

RunStarts ==
    [loop : {"run"}, pc : {"loop"}, round : {1},
     n : 1..ScenarioPages, k : {4, ScenarioPageLen}, done : {"no_cursor", "empty_page"},
     limit : {MinLimit, ScenarioLimit}, start_date : {NoDay}, end_date : {NoDay},
     posts : {<<>>}, after : {None}, page : {0}, base : {"old"},
     error : {""}, raised : {FALSE},
     fetches : {0}, term : {0}, patience : {ScenarioPages}, result : {<<>>}]

RunInit ==
    /\ StoreStart(BOOLEAN, {TRUE})
    /\ kf = Off
    /\ ch = Off
    /\ pg \in RunStarts

RunNext ==
    \/ RunFetch
    \/ RunSave
    \/ RunAgain
    \/ \E p \in Procs : Insert(p)
    \/ \E p \in Procs : Commit(p)

SpecRun == RunInit /\ [][RunNext]_vars

\* C12: on a Reddit source that serves n pages of k new posts and then signals
\* done, a run with a limit returns min(limit, n * k) posts and saves them with
\* inserted = that number into a store that held none; the same run made again
\* at once reports inserted = 0.  With 3 pages of 40 and limit = 100: 100, then 0.
C12_CappedThenZero ==
    (pg.pc = "saving" /\ Len(log) = pg.round) =>
        LET e == log[pg.round]
            fetched == Min(pg.limit, pg.n * pg.k)
        IN  /\ e.outcome = "returned"
            /\ Len(e.posts) = fetched /\ e.total = fetched
            /\ e.inserted = IF pg.round = 1 THEN fetched ELSE 0
            /\ Len(table) = fetched

C12_Witness ==
    /\ pg.pc = "saving" /\ pg.round = 2 /\ Len(log) = 2
    /\ pg.n = 3 /\ pg.k = 40 /\ pg.limit = 100
    /\ Len(log[1].posts) = 100 /\ log[1].inserted = 100
    /\ log[2].inserted = 0 /\ Len(table) = 100


\* C13: on a source that serves its pages strictly newest-first, a Reddit or
\* Telegram run bounded by start_date fetches nothing after the first page that
\* holds an entry older than start_date.
C13_StopsAtFirstOlderPage ==
    (/\ pg.pc \in {"loop", "done"} /\ pg.loop \in {"reddit", "telegram"}
     /\ pg.start_date # NoDay /\ pg.ordered /\ pg.stale_at > 0) =>
        pg.fetches = pg.stale_at


\* C14: whatever pages the source served, a Reddit or Telegram run bounded by
\* start_date returns no item dated before start_date (and none without a date).
C14_NothingOlderReturned ==
    (pg.pc = "done" /\ pg.loop \in {"reddit", "telegram"} /\ pg.start_date # NoDay) =>
        \A k \in 1..Len(pg.result) :
            LET day == IF pg.loop = "reddit" THEN pg.result[k].created_utc
                       ELSE pg.result[k].date
            IN  day # NoDay /\ day >= pg.start_date

\* a Reddit run that was served an older post and returned a newer one
C14_Witness ==
    /\ pg.pc = "done" /\ pg.loop = "reddit" /\ pg.start_date # NoDay
    /\ pg.stale_at > 0 /\ pg.result # <<>>
    /\ Len(pg.result) < Len(pg.posts)


\* what the caller of the entry point holds in the end: the body /scrape answers
\* with (the elapsed time left out), or the list scrape_data returns
Report(e) ==
    IF e.caller.entry = "scrape"
    THEN [source |-> e.source, method |-> e.method, posts_count |-> Len(e.posts),
          storage |-> [inserted |-> e.inserted, total |-> e.total,
                       db_type |-> e.db_type],
          posts |-> e.resp.posts]
    ELSE [posts |-> e.resp.posts]

\* C15: the result of a run that failed (every method refused) differs from the
\* result of the same request when it went through and found nothing.
C15_FailedRunDistinguishable ==
    (/\ ch.pc = "saving" /\ ch.round = 2 /\ Len(log) = 2
     /\ ch.first_blocked /\ ch.clean /\ ch.posts = <<>>) =>
        Report(log[1]) # Report(log[2])


\* C16: in one pagination run no two fetches are made with the same cursor.
C16_CursorNeverRepeats ==
    (pg.pc \in {"loop", "done"} /\ pg.loop \in {"reddit", "telegram", "bluesky"}) =>
        ~pg.repeat


---------------------------------------------------------------------------
\* HttpScraper.scrape_subreddit, the other Reddit loop: a 429 waits and asks
\* again.

MaxRateLimited == 4

HttpResponses ==
    [kind : {"429", "error"}, children : {<<>>}, after : {None}]
        \cup [kind : {"page"}, children : Pages, after : Cursors]

http_post(child) ==
    [id |-> IF child.id = "" THEN None ELSE child.id, title |-> child.text,
     score |-> child.score, created_utc |-> child.day]

\* one pass of the while loop on response r
scrape_subreddit(s, r) ==
    IF r.kind = "429" THEN s
    ELSE IF r.kind = "error" \/ r.children = <<>> THEN PageDone(s, s.posts)
    ELSE LET n == Min(Len(r.children), Min(s.limit, RedditLimit) - Len(s.posts))
             got == [k \in 1..n |-> http_post(r.children[k])]
             s1 == [s EXCEPT !.posts = s.posts \o got, !.after = r.after]
         IN  IF Falsy(r.after) \/ Len(s1.posts) >= Min(s.limit, RedditLimit)
             THEN PageDone(s1, s1.posts)
             ELSE s1

\* history: the 429 answers received in a row
RateLimited(s, r) ==
    [s EXCEPT !.limited = IF r.kind = "429" THEN s.limited + 1 ELSE 0]

HttpScraperPage ==
    /\ pg.pc = "loop" /\ pg.loop = "http_scraper"
    /\ \E r \in HttpResponses :
        /\ ~RedditTerminal(r) => pg.patience > 0
        /\ r.kind = "429" => pg.limited < MaxRateLimited
        /\ pg' = scrape_subreddit(RateLimited(Served(pg, RedditTerminal(r)), r), r)
    /\ UNCHANGED <<storeVars, kf, ch>>

HttpStarts ==
    [loop : {"http_scraper"}, pc : {"loop"}, limit : Limits, posts : {<<>>},
     after : {None}, limited : {0}, fetches : {0}, term : {0},
     patience : {MaxPages}, result : {<<>>}]

HttpInit ==
    /\ StoreStart({FALSE}, {TRUE})
    /\ kf = Off
    /\ ch = Off
    /\ pg \in HttpStarts

HttpNext == HttpScraperPage

SpecHttp == HttpInit /\ [][HttpNext]_vars

\* C17: after three 429 answers in a row the method is given up: the loop has
\* ended and sends no further request.
C17_ThreeRateLimitsAbandon ==
    (pg.pc \in {"loop", "done"} /\ pg.loop = "http_scraper" /\ pg.limited >= 3)
        => pg.pc = "done"


---------------------------------------------------------------------------
\* The scroll loop of scrape_twitter_with_login, once the search page is open.

WallCheck == 3
GiveUp == 5

ScrollLimits == {ScrollSize, GiveUp * ScrollSize}

\* what one look at the page shows: the new tweets parse_tweets finds, whether
\* the login wall is up, whether the page says there are no results
ScrollViews(seen_ids) ==
    [tweets : TweetRuns(seen_ids), wall : BOOLEAN, no_results : BOOLEAN]

\* one pass of the while loop; the pass that leaves the loop returns
twitter_scroll(s, v) ==
    LET n == IF v.tweets # <<>> THEN 0 ELSE s.no_new_tweets_count + 1
        s1 == [s EXCEPT !.posts = s.posts \o v.tweets,
                        !.seen_ids = s.seen_ids \cup
                                       {v.tweets[k].id : k \in 1..Len(v.tweets)},
                        !.no_new_tweets_count = n]
        stop == /\ v.tweets = <<>>
                /\ n >= WallCheck
                /\ (v.wall \/ v.no_results \/ n >= GiveUp)
        s2 == [s1 EXCEPT !.scroll_count = s.scroll_count + 1]
    IN  IF stop THEN PageDone(s1, Take(s1.posts, s.limit))
        ELSE IF Len(s2.posts) < s.limit /\ s2.scroll_count < max_scrolls(s.limit) THEN s2
        ELSE PageDone(s2, Take(s2.posts, s.limit))

TwitterScroll ==
    /\ pg.pc = "loop" /\ pg.loop = "twitter_scroll"
    /\ \E v \in ScrollViews(pg.seen_ids) : pg' = twitter_scroll(pg, v)
    /\ UNCHANGED <<storeVars, kf, ch>>

ScrollStarts ==
    [loop : {"twitter_scroll"}, pc : {"loop"}, limit : ScrollLimits, posts : {<<>>},
     seen_ids : {{}}, scroll_count : {0}, no_new_tweets_count : {0}, result : {<<>>}]

ScrollInit ==
    /\ StoreStart({FALSE}, {TRUE})
    /\ kf = Off
    /\ ch = Off
    /\ pg \in ScrollStarts

ScrollNext == TwitterScroll

SpecScroll == ScrollInit /\ [][ScrollNext]_vars

\* C18: the run has stopped once 3 pages or scrolls in a row brought nothing
\* new, and a page or scroll that brought something puts the count of empty
\* ones back to zero.
C18_ThreeEmptyStop ==
    /\ (pg.pc \in {"loop", "done"} /\ pg.loop = "twitter_scroll"
        /\ pg.no_new_tweets_count >= 3) => pg.pc = "done"
    /\ (pg.pc \in {"loop", "done"} /\ pg.loop = "telegram"
        /\ pg.consecutive_empty >= 3) => pg.pc = "done"


\* C19: a Reddit run given a malformed start_date or end_date makes no request
\* and ends by raising the error to its caller.
C19_MalformedDateRaisesFirst ==
    (/\ pg.pc \in {"loop", "done"} /\ pg.loop = "reddit"
     /\ (Malformed(pg.start_date) \/ Malformed(pg.end_date))) =>
        /\ pg.fetches = 0
        /\ pg.pc = "done" => pg.raised


---------------------------------------------------------------------------
\* The sources with an authenticated method, seen from the scraper's public
\* function: scrape_twitter (above), scrape_bluesky, scrape_youtube.  A run
\* ends at pc = "save", the list handed back to the entry point.

\* the public function returns posts
scraper_return(s, posts) == [s EXCEPT !.pc = "save", !.posts = posts]

BsPost == [id |-> "a", text |-> "alpha", created_utc |-> 2]

\* _scrape_bluesky_impl up to its loop: the account when username and password
\* are set, the public API otherwise
scrape_bluesky ==
    /\ ch.pc = "scrape_bluesky"
    /\ IF ch.creds
       THEN /\ \E o \in {"no_atproto", "login_failed", "found"} :
                 ch' = scraper_return([ch EXCEPT !.login = o],
                                      IF o = "found" THEN <<BsPost>> ELSE <<>>)
            /\ pg' = pg
       ELSE /\ ch' = [ch EXCEPT !.pc = "public", !.fallback = TRUE]
            /\ pg' = CHOOSE s \in PageStarts : s.loop = "bluesky" /\ s.limit = ch.limit
    /\ UNCHANGED <<storeVars, kf>>

\* the public loop is over: posts[:limit] goes back through scrape_bluesky
bluesky_return ==
    /\ ch.pc = "public" /\ pg.pc = "done"
    /\ ch' = scraper_return(ch, pg.result)
    /\ pg' = Off
    /\ UNCHANGED <<storeVars, kf>>

YtComment == [id |-> "yt1", title |-> "to the moon", score |-> "2",
              created_utc |-> "2024-01-01T00:00:00Z", source |-> "youtube",
              method |-> "api"]

\* scrape_youtube_api without a key: on with Selenium
no_api_key(s) == [s EXCEPT !.pc = "youtube_selenium", !.fallback = TRUE]

\* scrape_youtube and scrape_youtube_api
scrape_youtube ==
    /\ ch.pc = "scrape_youtube"
    /\ LET method == IF ch.method = "auto"
                     THEN IF ch.creds THEN "api" ELSE "selenium"
                     ELSE ch.method
       IN  IF method = "api"
           THEN IF ~ch.YOUTUBE_API_OK THEN ch' = scraper_return(ch, <<>>)
                ELSE IF ~ch.creds THEN ch' = no_api_key(ch)
                ELSE \E o \in {"HttpError", "exception", "empty", "found"} :
                        ch' = scraper_return([ch EXCEPT !.login = o],
                                             IF o = "found" THEN <<YtComment>> ELSE <<>>)
           ELSE ch' = [ch EXCEPT !.pc = "youtube_selenium", !.fallback = ~ch.creds]
    /\ UNCHANGED <<storeVars, kf, pg>>

scrape_youtube_selenium ==
    /\ ch.pc = "youtube_selenium"
    /\ IF ~ch.SELENIUM_OK THEN ch' = scraper_return(ch, <<>>)
       ELSE \E o \in {"exception", "empty", "found"} :
               ch' = scraper_return(ch, IF o = "found" THEN <<YtComment>> ELSE <<>>)
    /\ UNCHANGED <<storeVars, kf, pg>>

CredStarts ==
    ChainStarts
    \cup [pc : {"scrape_bluesky"}, caller : {[entry |-> "scrape_data", source |-> "bluesky"]},
          limit : Limits, creds : BOOLEAN, login : {""}, fallback : {FALSE},
          posts : {<<>>}]
    \cup [pc : {"scrape_youtube"}, caller : {[entry |-> "scrape_youtube", source |-> "youtube"]},
          method : {"auto", "api", "selenium"}, creds : BOOLEAN,
          YOUTUBE_API_OK : BOOLEAN, SELENIUM_OK : BOOLEAN, login : {""},
          fallback : {FALSE}, posts : {<<>>}]

CredInit ==
    /\ StoreStart({FALSE}, {TRUE})
    /\ kf = Off
    /\ pg = Off
    /\ ch \in CredStarts

CredNext ==
    \/ scrape_twitter
    \/ scrape_twitter_with_login
    \/ twitter_search
    \/ scrape_twitter_profile
    \/ scrape_bluesky
    \/ BlueskyPage
    \/ bluesky_return
    \/ scrape_youtube
    \/ scrape_youtube_selenium

SpecCreds == CredInit /\ [][CredNext]_vars

\* the function of the source's fallback method was entered
FallbackEntered(s) ==
    IF s.caller.source = "twitter" THEN s.scans >= 1 /\ s.login = ""
    ELSE s.fallback

\* the library of the fallback method is installed (Twitter and YouTube fall
\* back to Selenium, Bluesky to plain HTTP)
FallbackUsable(s) ==
    s.caller.source \in {"twitter", "youtube"} => s.SELENIUM_OK

\* C20: without credentials (Twitter: no username/password and no cookie file;
\* Bluesky: no username/password; YouTube: no API key) a run whose fallback
\* method is usable goes on with that method before it returns to its caller.
C20_NoCredentialsFallback ==
    (ch.pc = "save" /\ ~ch.creds /\ FallbackUsable(ch)) => FallbackEntered(ch)

---------------------------------------------------------------------------
\* A post saved again after it changed at the source: the same id, another
\* title, text, score, date and label.

PostEdited == [id |-> "1", title |-> "T2", text |-> "edited", score |-> "9",
               created_utc |-> "12", human_label |-> "bullish",
               source |-> "reddit", method |-> "http"]

ResavePosts == {PostA, PostEdited, PostN}

ResaveBatches == UNION {[1..n -> ResavePosts] : n \in 1..MaxBatch}

ResaveCallers == {[entry |-> "scrape", source |-> "reddit"],
                  [entry |-> "save_posts", source |-> None]}

Resave(p) ==
    /\ \A q \in Procs : q < p => run[q].pc # "idle"
    /\ \E caller \in ResaveCallers, posts \in ResaveBatches : save_posts(p, caller, posts)
    /\ UNCHANGED <<kf, pg, ch>>

ResaveInit ==
    /\ StoreStart(BOOLEAN, {TRUE})
    /\ kf = Off
    /\ pg = Off
    /\ ch = Off

ResaveNext ==
    \/ \E p \in Procs : Resave(p)
    \/ \E p \in Procs : Insert(p)
    \/ \E p \in Procs : Busy(p)
    \/ \E p \in Procs : Deadlock(p)
    \/ \E p \in Procs : Commit(p)

SpecResave == ResaveInit /\ [][ResaveNext]_vars

\* C21: a stored row never changes: whatever is saved afterwards, under the
\* same Dedup Key or another, row k of the table keeps its title, text, score,
\* created_utc, human_label and scraped_at (and every other column).
C21_StoredRowUnchanged ==
    [][\A k \in 1..Len(table) : Len(table') >= k /\ table'[k] = table[k]]_vars

\* the post was stored, then saved again edited under the same key: the call
\* returned inserted = 0 and the row still reads as first written
C21_Witness ==
    /\ Len(log) = 2 /\ Len(table) = 1
    /\ log[1].posts = <<PostA>> /\ log[1].inserted = 1
    /\ log[2].posts = <<PostEdited>> /\ log[2].outcome = "returned" /\ log[2].inserted = 0
    /\ table[1].title = "T" /\ table[1].text = "" /\ table[1].score = 7
    /\ table[1].created_utc = "10" /\ table[1].human_label = None
    /\ table[1].scraped_at = 0


\* C22: scraped_at is monotonic within the store: a row that entered the table
\* after another row never carries an earlier scraped_at, concurrent calls
\* included.
C22_ScrapedAtMonotonic ==
    \A i, j \in 1..Len(table) : i < j => table[i].scraped_at <= table[j].scraped_at


---------------------------------------------------------------------------
\* One entry of a source, its text short or long, built into a record by the
\* scraper and handed to save_posts.

\* a text of n characters
RECURSIVE Chars(_)
Chars(n) ==
    IF n = 0 THEN ""
    ELSE LET h == Chars(n \div 2) IN h \o h \o (IF n % 2 = 1 THEN "a" ELSE "")

RawTexts == {"gm", Chars(BsTitleMax + 1), Chars(TweetMax + 1), Chars(BsTextMax + 1)}

\* parse_tweets: the record of one tweet
parse_tweet(raw) ==
    LET text == Take(raw, TweetMax)
    IN  [id |-> "90", title |-> Take(text, TweetMax), text |-> "", score |-> "0",
         created_utc |-> "12", source |-> "twitter", method |-> "selenium",
         human_label |-> None]

\* the record each scraper builds of an entry whose title and body are raw
Parsed(source, raw) ==
    CASE source = "reddit" ->
            reddit_post([id |-> "a", text |-> raw, selftext |-> raw, score |-> "4",
                         day |-> "1700000000"])
      [] source = "twitter" -> parse_tweet(raw)
      [] OTHER ->
            [_post_view_to_dict([id |-> "a", text |-> raw, day |-> "2"])
                EXCEPT !.id = "a"] @@ [score |-> "0", source |-> "bluesky", method |-> "api"]

TruncParse ==
    /\ pg.pc = "parse" /\ pg.loop = "trunc"
    /\ pg' = [pg EXCEPT !.pc = "done", !.result = <<Parsed(pg.source, pg.raw)>>]
    /\ UNCHANGED <<storeVars, kf, ch>>

TruncSave ==
    /\ pg.pc = "done" /\ pg.loop = "trunc"
    /\ save_posts(1, [entry |-> "save_posts", source |-> None], pg.result)
    /\ pg' = [pg EXCEPT !.pc = "saving"]
    /\ UNCHANGED <<kf, ch>>

TruncStarts ==
    [loop : {"trunc"}, pc : {"parse"}, source : {"reddit", "twitter", "bluesky"},
     raw : RawTexts, result : {<<>>}]

TruncInit ==
    /\ StoreStart(BOOLEAN, BOOLEAN)
    /\ kf = Off
    /\ ch = Off
    /\ pg \in TruncStarts

TruncNext ==
    \/ TruncParse
    \/ TruncSave
    \/ \E p \in Procs : Insert(p)
    \/ \E p \in Procs : Commit(p)
    \/ Outage

SpecTrunc == TruncInit /\ [][TruncNext]_vars

\* C23: every record handed to the store, from whatever source, has its title
\* and its body cut to a fixed maximum length (no scraper's cut is longer than
\* 500 characters for a title and 5000 for a body).
C23_TitleAndBodyTruncated ==
    \A k \in 1..Len(log) : \A j \in 1..Len(log[k].posts) :
        /\ Len(log[k].posts[j].title) <= TweetMax
        /\ Len(log[k].posts[j].text) <= BsTextMax


---------------------------------------------------------------------------
\* The public scrape functions under errors of any kind: scrape_reddit,
\* scrape_telegram_paginated, scrape_twitter and scrape_stocktwits, each a
\* try / except Exception around its implementation.

StLimit == 1000
StDocumented == 300
StBatch == 3

StLimits == {1, MinLimit, StDocumented + 1}

\* the k-th message of the symbol's page
StPost(k) == [id |-> ToStr(k), title |-> "to the moon", text |-> "", score |-> "0",
              created_utc |-> 2, source |-> "stocktwits", method |-> "selenium",
              human_label |-> None]

StPosts(from, n) == [k \in 1..n |-> StPost(from + k - 1)]

\* what the browser meets: no Chrome binary, a failing mkdtemp, a driver that
\* does not start, or the page with json messages in __NEXT_DATA__ and html
\* more in the articles; broken: the page fails after the JSON was read
StOutcomes(limit) ==
    [kind : {"no_chrome", "mkdtemp_error", "driver_error"}, json : {0}, html : {0}]
    \cup [kind : {"page", "broken"}, json : {0, 1, MinLimit}, html : {0, StBatch, limit + StBatch}]

st_fetch_limit(s) ==
    Min(IF s.start_date # NoDay \/ s.end_date # NoDay THEN s.limit * 2 ELSE s.limit,
        StLimit)

\* enhanced_scroll_and_parse: batches of new articles until limit is reached
\* or the page has no more
st_scroll(from, html, limit) ==
    StPosts(from, Min(html, ((limit + StBatch - 1) \div StBatch) * StBatch))

\* filter_posts_by_date inside the inner try: a malformed date argument raises,
\* the except prints and the posts stay unfiltered
st_filter(s, posts) ==
    IF Malformed(s.start_date) \/ Malformed(s.end_date) THEN posts
    ELSE filter_posts_by_date(posts, s.start_date, s.end_date)

st_return(s, posts) == [s EXCEPT !.pc = "save", !.posts = posts]

scrape_stocktwits_impl(s, o) ==
    IF ~s.SELENIUM_OK \/ o.kind \in {"no_chrome", "driver_error"} THEN st_return(s, <<>>)
    ELSE IF o.kind = "mkdtemp_error" THEN st_return(Caught("OSError") @@ s, <<>>)
    ELSE LET json == StPosts(1, Min(o.json, st_fetch_limit(s)))
             remaining == st_fetch_limit(s) - Len(json)
             posts == json \o st_scroll(Len(json) + 1, o.html, remaining)
         IN  IF json # <<>> /\ Len(json) >= st_fetch_limit(s)
             THEN st_return(s, Take(st_filter(s, json), s.limit))
             ELSE IF o.kind = "broken" THEN st_return(s, Take(json, s.limit))
             ELSE st_return(s, Take(st_filter(s, posts), s.limit))

scrape_stocktwits ==
    /\ ch.pc = "scrape_stocktwits"
    /\ \E o \in StOutcomes(ch.limit) : ch' = scrape_stocktwits_impl(ch, o)
    /\ UNCHANGED <<storeVars, kf, pg>>

StStarts ==
    { [pc |-> "scrape_stocktwits", caller |-> [entry |-> "scrape", source |-> "stocktwits"],
       limit |-> l, start_date |-> w[1], end_date |-> w[2], SELENIUM_OK |-> ok,
       posts |-> <<>>, error |-> "", raised |-> FALSE]
        : l \in StLimits, w \in Windows, ok \in BOOLEAN }

\* an exception nothing inside the implementation catches (a body that is not
\* the JSON expected, a selector that fails): it reaches the public function
RedditFault ==
    /\ pg.pc = "loop" /\ pg.loop = "reddit"
    /\ \E exc \in {"JSONDecodeError", "AttributeError"} :
        pg' = PageDone(Caught(exc) @@ pg, <<>>)
    /\ UNCHANGED <<storeVars, kf, ch>>

TelegramFault ==
    /\ pg.pc = "loop" /\ pg.loop = "telegram"
    /\ pg' = PageDone(Caught("AttributeError") @@ pg, <<>>)
    /\ UNCHANGED <<storeVars, kf, ch>>

\* scrape_twitter: an exception under the login mode goes to the inner except
\* and on to the public profiles, any other one to the outer except
TwitterFault ==
    /\ ch.pc \in {"with_login", "search", "no_login"}
    /\ ch.caller.source = "twitter"
    /\ ch' = IF ch.pc = "no_login" /\ ch.ret = "outer"
             THEN tw_return(Caught("WebDriverException") @@ [ch EXCEPT !.clean = FALSE,
                                                             !.blocked = FALSE], <<>>)
             ELSE no_login_start([ch EXCEPT !.clean = FALSE, !.blocked = FALSE],
                                 "outer", ch.limit)
    /\ UNCHANGED <<storeVars, kf, pg>>

RaiseInit ==
    /\ StoreStart({FALSE}, {TRUE})
    /\ kf = Off
    /\ \/ pg \in {s \in PageStarts : s.loop \in {"reddit", "telegram"}} /\ ch = Off
       \/ pg = Off /\ ch \in ChainStarts \cup StStarts

RaiseNext ==
    \/ RedditPage
    \/ RedditFault
    \/ TelegramPage
    \/ TelegramFault
    \/ scrape_twitter
    \/ scrape_twitter_with_login
    \/ twitter_search
    \/ scrape_twitter_profile
    \/ TwitterFault
    \/ scrape_stocktwits

SpecRaise == RaiseInit /\ [][RaiseNext]_vars

\* the run ended in an exception at its caller
Raised(s) == "raised" \in DOMAIN s /\ s.raised

\* an exception reached the public function
Failed(s) == "error" \in DOMAIN s /\ s.error # ""

\* C24: scrape_reddit, scrape_twitter, scrape_stocktwits and
\* scrape_telegram_paginated never raise to their caller: whatever the run
\* met (a refusal, a wall, an empty page, a malformed date, any exception), it
\* ends in a returned list, the empty one when an exception reached it.
C24_PublicFunctionsNeverRaise ==
    /\ ~Raised(pg) /\ ~Raised(ch)
    /\ (pg.pc = "done" /\ Failed(pg)) => pg.result = <<>>
    /\ (ch.pc = "save" /\ Failed(ch)) => ch.posts = <<>>

\* a Reddit run that paged, then met an exception, returned the empty list
C24_Witness ==
    /\ pg.pc = "done" /\ pg.loop = "reddit" /\ pg.fetches >= 1
    /\ pg.error = "AttributeError" /\ ~pg.raised /\ pg.result = <<>>


\* the maxima the /limits endpoint documents
RedditDocumented == 1000
TwitterDocumented == 100

\* C25: whatever limit is requested, a scrape returns no more posts than the
\* maximum /limits documents for its source and method (Reddit HTTP 1000,
\* StockTwits Selenium 300, Twitter Selenium 100).
C25_DocumentedMaximum ==
    /\ (pg.pc = "done" /\ pg.loop = "reddit") => Len(pg.result) <= RedditDocumented
    /\ (ch.pc = "save" /\ ch.caller.source = "stocktwits") => Len(ch.posts) <= StDocumented
    /\ (ch.pc = "save" /\ ch.caller.source = "twitter") => Len(ch.posts) <= TwitterDocumented


---------------------------------------------------------------------------
\* Reading the store back: get_all_posts beside the calls that fill it.

MaxReadLimit == 2

\* the arguments of a call: a filter is None when not given, limit is given or not
ReadArgs ==
    [source : {None, "reddit"}, method : {None, "http"},
     limit_given : {TRUE}, limit : 0..MaxReadLimit]
    \cup [source : {None, "reddit"}, method : {None, "http"},
          limit_given : {FALSE}, limit : {0}]

\* WHERE 1=1 [AND source = ?] [AND method = ?]: "if source:", "if method:"
Where(rows, source, method) ==
    SelectSeq(rows, LAMBDA r : /\ (Falsy(source) \/ r.source = source)
                               /\ (Falsy(method) \/ r.method = method))

\* ORDER BY scraped_at DESC: the orders of the rows the database may answer in
\* (rows with the same scraped_at come in any order)
OrderBy(rows) ==
    {[k \in 1..Len(rows) |-> rows[f[k]]] :
        f \in {g \in [1..Len(rows) -> 1..Len(rows)] :
                 /\ \A a, b \in 1..Len(rows) : a # b => g[a] # g[b]
                 /\ \A a, b \in 1..Len(rows) :
                        a < b => rows[g[a]].scraped_at >= rows[g[b]].scraped_at}}

\* "if limit:" adds LIMIT n
LimitClause(rows, a) ==
    IF a.limit_given /\ a.limit # 0 THEN Take(rows, a.limit) ELSE rows

\* one call of get_all_posts in a behaviour
get_all_posts ==
    /\ ch.pc = "off"
    /\ dbUp
    /\ \E a \in ReadArgs : \E ordered \in OrderBy(Where(table, a.source, a.method)) :
        ch' = [pc |-> "read", args |-> a, posts |-> LimitClause(ordered, a)]
    /\ UNCHANGED <<storeVars, kf, pg>>

ReadInit ==
    /\ StoreStart({FALSE}, {TRUE})
    /\ kf = Off
    /\ pg = Off
    /\ ch = Off

ReadNext ==
    \/ \E p \in Procs : Resave(p)
    \/ \E p \in Procs : Insert(p)
    \/ \E p \in Procs : Busy(p)
    \/ \E p \in Procs : Commit(p)
    \/ get_all_posts

SpecRead == ReadInit /\ [][ReadNext]_vars

\* C26: get_all_posts(source, method, limit) returns only rows whose source and
\* method equal the filters given, ordered by scraped_at descending, and never
\* more than limit rows, for any limit given.
C26_FilteredOrderedLimited ==
    ch.pc = "read" =>
        /\ \A k \in 1..Len(ch.posts) :
            /\ ch.args.source # None => ch.posts[k].source = ch.args.source
            /\ ch.args.method # None => ch.posts[k].method = ch.args.method
        /\ \A k \in 1..Len(ch.posts) - 1 :
            ch.posts[k].scraped_at >= ch.posts[k + 1].scraped_at
        /\ ch.args.limit_given => Len(ch.posts) <= ch.args.limit


\* C27: the Twitter chain only moves forward: within one run the no-login
\* public-profile scan, the last method of the chain, is run at most once, and
\* once it is exhausted no method is run again.
C27_ChainOnlyForward ==
    ch.pc # "off" => ch.scans <= 1


---------------------------------------------------------------------------
\* Every scraper against its limit: the three loops, the Twitter chain and
\* StockTwits, started with a limit and a date window, on pages of any size.

LimitInit ==
    /\ StoreStart({FALSE}, {TRUE})
    /\ kf = Off
    /\ \/ pg \in PageStarts /\ ch = Off
       \/ pg = Off /\ ch \in ChainStarts \cup StStarts

LimitNext ==
    \/ RedditPage
    \/ TelegramPage
    \/ BlueskyPage
    \/ scrape_twitter
    \/ scrape_twitter_with_login
    \/ twitter_search
    \/ scrape_twitter_profile
    \/ scrape_stocktwits

SpecLimit == LimitInit /\ [][LimitNext]_vars

---------------------------------------------------------------------------
\* The loops with the answer of their latest fetch kept beside the run
\* (history): a fetch that fails after pages were collected.

RedditFetch ==
    /\ pg.pc = "loop" /\ pg.loop = "reddit"
    /\ \E r \in RedditResponses :
        /\ ~RedditTerminal(r) => pg.patience > 0
        /\ pg' = [scrape_reddit_http(Served(pg, RedditTerminal(r)), r) EXCEPT !.last = r.kind]
    /\ UNCHANGED <<storeVars, kf, ch>>

\* the for loop over the page left through "consecutive_empty = 999; break":
\* it came to a message dated after end_date
Forced(s, r) ==
    /\ r.kind = "page"
    /\ tg_wraps(s, [all_messages |-> s.all_messages, new_messages |-> 0,
                    oldest_id |-> None, consecutive_empty |-> s.consecutive_empty],
                r.wraps).consecutive_empty = ForceStop

TelegramFetch ==
    /\ pg.pc = "loop" /\ pg.loop = "telegram"
    /\ \E r \in TelegramResponses :
        /\ ~TelegramTerminal(r) => pg.patience > 0
        /\ pg' = [_scrape_telegram_paginated_impl(Served(pg, TelegramTerminal(r)), r)
                    EXCEPT !.last = r.kind, !.forced = pg.forced \/ Forced(pg, r)]
    /\ UNCHANGED <<storeVars, kf, ch>>

BlueskyFetch ==
    /\ pg.pc = "loop" /\ pg.loop = "bluesky"
    /\ \E r \in BlueskyResponses :
        /\ ~BlueskyTerminal(r) => pg.patience > 0
        /\ pg' = [_scrape_bluesky_impl(Served(pg, BlueskyTerminal(r)), r) EXCEPT !.last = r.kind]
    /\ UNCHANGED <<storeVars, kf, ch>>

FetchStarts == {[last |-> "", forced |-> FALSE] @@ s : s \in PageStarts}

FetchInit ==
    /\ StoreStart({FALSE}, {TRUE})
    /\ kf = Off
    /\ ch = Off
    /\ pg \in FetchStarts

FetchNext ==
    \/ RedditFetch
    \/ TelegramFetch
    \/ BlueskyFetch

SpecFetch == FetchInit /\ [][FetchNext]_vars

\* what the run had accumulated when it ended
Accumulated(s) == IF s.loop = "telegram" THEN s.all_messages ELSE s.posts

\* C29: a run ended by a failed fetch, after pages were collected, ends
\* normally and returns what it had accumulated from the earlier pages (through
\* the date filter of the run and the cut to limit), not an empty list and not
\* an error.
C29_FailedFetchKeepsPages ==
    (pg.pc = "done" /\ pg.last = "error" /\ Accumulated(pg) # <<>>) =>
        IF pg.loop = "reddit"
        THEN /\ pg.error = "" /\ ~pg.raised
             /\ (pg.start_date \in {NoDay, BadDay} /\ pg.end_date \in {NoDay, BadDay})
                    => pg.result = Take(pg.posts, pg.limit)
        ELSE pg.result = Take(Accumulated(pg), pg.limit)


\* the quantity the condition of each while loop bounds: the posts collected
\* (Reddit, with its one change of host; Bluesky), the page number (Telegram)
LoopCount(s) ==
    CASE s.loop = "reddit" -> Len(s.posts) + (IF s.base = "www" THEN 1 ELSE 0)
      [] s.loop = "telegram" -> s.page
      [] OTHER -> Len(s.posts)

\* C30: every pagination loop has a hard ceiling on its fetches: each fetch
\* after which the loop goes on advances the count its while condition bounds,
\* so that no source (an oscillating cursor, only items already seen) keeps the
\* run fetching.
C30_FetchCeiling ==
    [][(pg.pc = "loop" /\ pg'.pc = "loop" /\ pg'.fetches = pg.fetches + 1)
            => LoopCount(pg') > LoopCount(pg)]_vars


---------------------------------------------------------------------------
\* scrape_reddit_http's change of host, step by step

\* the host is never changed back
HostKept(s, t) == s.base = "www" => t.base = "www"

\* the pass that follows a failed fetch on old.reddit.com goes on with what
\* the run had: the same cursor, the same posts, the same page number
SameRequest(s, t) ==
    /\ t.pc = "loop" /\ t.base = "www"
    /\ t.after = s.after /\ t.posts = s.posts /\ t.page = s.page

\* C31: in scrape_reddit_http the host changes from old.reddit.com to
\* www.reddit.com at most once in a run; the pass after the change asks for
\* the failed page again with the same cursor, and a fetch that fails after
\* the change ends the run.
C31_SwitchOnceSameCursor ==
    [][(pg.loop = "reddit" /\ pg.pc = "loop") =>
            /\ HostKept(pg, pg')
            /\ (pg'.last = "error" /\ pg.base = "old") => SameRequest(pg, pg')
            /\ (pg'.last = "error" /\ pg.base = "www") => pg'.pc = "done"
            /\ pg'.last # "error" => pg'.base = pg.base]_vars

\* the fetch of a second page failed on old.reddit.com and the run goes on
\* with www.reddit.com and the cursor of the first page
C31_Witness ==
    /\ pg.loop = "reddit" /\ pg.pc = "loop" /\ pg.last = "error"
    /\ pg.base = "www" /\ pg.after # None /\ pg.posts # <<>>


---------------------------------------------------------------------------
\* C32: in a paginated Telegram run bounded by end_date, the page on which
\* the run comes to a message dated after end_date is the last one it fetches:
\* the run has ended when that page has been handled.
C32_LateMessageStops ==
    (pg.loop = "telegram" /\ pg.end_date # NoDay /\ pg.forced) => pg.pc = "done"


---------------------------------------------------------------------------
(* The Dedup Key on records whose fields hold a colon or a space *)

InjSources == {"reddit", "telegram"}

\* ids, titles and timestamps as the scrapers hand them over: text that holds
\* the separator of the key, an id with a space after it, no id, no timestamp
InjRecords ==
    [id : {Missing, "1", "1 ", "T:1"}, title : {"T", "T:1"},
     created_utc : {None, "1", "1:1"}]

InjInit ==
    /\ StoreStart({FALSE}, {TRUE})
    /\ pg = Off
    /\ ch = Off
    /\ kf \in [pc : {"args"}, s1 : InjSources, s2 : InjSources, m1 : {"http"},
               m2 : KeyMethods, r1 : InjRecords, r2 : InjRecords, k1 : {""}, k2 : {""}]

SpecInj == InjInit /\ [][KeyNext]_vars

\* a record without id: the key is missing, None or empty
NoId(r) == Falsy(Get(r, "id"))

\* the two records differ in what the key is said to be made of
Differ(f) ==
    \/ f.s1 # f.s2
    \/ f.m1 # f.m2
    \/ IF NoId(f.r1) /\ NoId(f.r2)
       THEN \/ GetDefault(f.r1, "title", "") # GetDefault(f.r2, "title", "")
            \/ GetDefault(f.r1, "created_utc", "") # GetDefault(f.r2, "created_utc", "")
       ELSE Get(f.r1, "id") # Get(f.r2, "id")

\* C33: the Dedup Key is injective: two records that differ in (source,
\* method, id), or without id in (source, method, title, created_utc), never
\* get the same key.
C33_KeyInjective ==
    (kf.pc = "done" /\ Differ(kf)) => kf.k1 # kf.k2


---------------------------------------------------------------------------
(* The id a scraper derives for an element that exposes none: the same
   element parsed in two processes, parse_tweets or parse_html_posts, then
   _post_uid *)

\* the seed of str hashing, drawn when a process starts (PYTHONHASHSEED unset)
HashSeeds == {1, 2, 3}

HashPrefix == 50

\* hash(text) in a process started with this seed
hash(seed, text) == "hash" \o ToStr(seed) \o "(" \o text \o ")"

\* the elements of a page: a tweet with or without a /status/ link, a
\* StockTwits message with or without a data-id
Elements ==
    [source : {"twitter", "stocktwits"}, native : {"", "17"},
     text : {"alpha to the moon", "bravo is down"}, datetime : {None, "10"}]

\* tweet_id and msg_id
derived_id(seed, el) ==
    IF el.native # "" THEN el.native ELSE Str(hash(seed, Take(el.text, HashPrefix)))

parsed_post(seed, el) ==
    [id |-> derived_id(seed, el), title |-> Take(el.text, TweetMax),
     created_utc |-> el.datetime]

\* one process parses the element
ParseIn(k) ==
    /\ kf.pc = "page" /\ k \notin kf.parsed
    /\ LET post == parsed_post(kf.seed[k], kf.el)
           f == IF k = 1 THEN [kf EXCEPT !.r1 = post] ELSE [kf EXCEPT !.r2 = post]
       IN  kf' = [f EXCEPT !.parsed = kf.parsed \cup {k},
                           !.pc = IF kf.parsed \cup {k} = {1, 2} THEN "args" ELSE "page"]
    /\ UNCHANGED <<storeVars, pg, ch>>

HashInit ==
    /\ StoreStart({FALSE}, {TRUE})
    /\ pg = Off
    /\ ch = Off
    /\ \E el \in Elements, seed \in [{1, 2} -> HashSeeds] :
        kf = [pc |-> "page", el |-> el, seed |-> seed, parsed |-> {},
              s1 |-> el.source, s2 |-> el.source, m1 |-> "selenium", m2 |-> "selenium",
              r1 |-> None, r2 |-> None, k1 |-> "", k2 |-> ""]

HashNext ==
    \/ \E k \in {1, 2} : ParseIn(k)
    \/ KeyApply

SpecHash == HashInit /\ [][HashNext]_vars

\* C34: the id a scraper gives a post is the same in every run and every
\* process, also when the scraper derives it because the page exposes none,
\* so the same post collected again gets the same Dedup Key.
C34_SameIdEveryProcess ==
    kf.pc = "done" => kf.r1.id = kf.r2.id /\ kf.k1 = kf.k2


---------------------------------------------------------------------------
\* The round trip: the rows read with get_all_posts() handed back to
\* save_posts with no source and no method.

\* dict(zip(columns, row)): the row as the record save_posts reads it (the
\* score column, an integer, in the notation of the scores of records)
AsPost(r) ==
    [uid |-> r.uid, id |-> r.id, source |-> r.source, method |-> r.method,
     title |-> r.title, text |-> r.text, score |-> ToStr(r.score),
     created_utc |-> r.created_utc, human_label |-> r.human_label,
     scraped_at |-> r.scraped_at]

RoundCaller == [entry |-> "round_trip", source |-> None]

\* save_posts(get_all_posts())
RoundTrip(p) ==
    /\ ch.pc = "read"
    /\ Falsy(ch.args.source) /\ Falsy(ch.args.method) /\ ~ch.args.limit_given
    /\ \A q \in Procs : q < p => run[q].pc # "idle"
    /\ save_posts(p, RoundCaller, [k \in 1..Len(ch.posts) |-> AsPost(ch.posts[k])])
    /\ ch' = [ch EXCEPT !.pc = "saved"]
    /\ UNCHANGED <<kf, pg>>

RoundNext ==
    \/ \E p \in Procs : Resave(p)
    \/ \E p \in Procs : Insert(p)
    \/ \E p \in Procs : Busy(p)
    \/ \E p \in Procs : Commit(p)
    \/ get_all_posts
    \/ \E p \in Procs : RoundTrip(p)

SpecRound == ReadInit /\ [][RoundNext]_vars

\* C35: saving the rows read back with get_all_posts() again, no other call
\* running and the store as it was read, inserts 0 rows and leaves the store
\* as it was.
C35_RoundTripInsertsNothing ==
    \A k \in 1..Len(log) :
        (/\ log[k].caller = RoundCaller /\ Returned(log[k]) /\ log[k].alone
         /\ log[k].rows_before = Len(log[k].posts))
            => log[k].inserted = 0 /\ log[k].rows_after = log[k].rows_before


---------------------------------------------------------------------------
\* C36: the list one collection run returns holds no two posts with the same
\* source-native id, also when the source serves an item on several pages.
C36_NoDuplicateIdReturned ==
    pg.pc = "done" =>
        \A i, j \in 1..Len(pg.result) :
            (i < j /\ pg.result[i].id # None) => pg.result[i].id # pg.result[j].id


---------------------------------------------------------------------------
\* get_stats beside the calls that fill the store: its three SELECTs are three
\* statements on a connection left at its defaults, so each reads the rows
\* committed when it runs.

\* SELECT COUNT(*) FROM posts
count_all(rows) == Len(rows)

\* SELECT source, method, COUNT(*) FROM posts GROUP BY source, method
group_by(rows) ==
    { [source |-> g[1], method |-> g[2],
       count |-> Cardinality({k \in 1..Len(rows) :
                                rows[k].source = g[1] /\ rows[k].method = g[2]})]
        : g \in {<<rows[k].source, rows[k].method>> : k \in 1..Len(rows)} }

\* SELECT MIN(scraped_at), MAX(scraped_at) FROM posts
min_max(rows) ==
    IF rows = <<>> THEN <<None, None>>
    ELSE <<CHOOSE t \in {rows[k].scraped_at : k \in 1..Len(rows)} :
                \A k \in 1..Len(rows) : t <= rows[k].scraped_at,
           CHOOSE t \in {rows[k].scraped_at : k \in 1..Len(rows)} :
                \A k \in 1..Len(rows) : t >= rows[k].scraped_at>>

\* the connection and the first statement
get_stats_total ==
    /\ ch.pc = "off"
    /\ dbUp
    /\ ch' = [pc |-> "total", total |-> count_all(table)]
    /\ UNCHANGED <<storeVars, kf, pg>>

\* the second statement
get_stats_by_source_method ==
    /\ ch.pc = "total"
    /\ dbUp
    /\ ch' = [pc |-> "grouped", total |-> ch.total, by_source_method |-> group_by(table)]
    /\ UNCHANGED <<storeVars, kf, pg>>

\* the third statement and the dict returned
get_stats ==
    /\ ch.pc = "grouped"
    /\ dbUp
    /\ ch' = [pc |-> "stats", total_posts |-> ch.total,
              by_source_method |-> ch.by_source_method,
              first_scrape |-> min_max(table)[1], last_scrape |-> min_max(table)[2]]
    /\ UNCHANGED <<storeVars, kf, pg>>

StatsNext ==
    \/ \E p \in Procs : Resave(p)
    \/ \E p \in Procs : Insert(p)
    \/ \E p \in Procs : Busy(p)
    \/ \E p \in Procs : Commit(p)
    \/ get_stats_total
    \/ get_stats_by_source_method
    \/ get_stats

SpecStats == ReadInit /\ [][StatsNext]_vars

RECURSIVE SumCounts(_)
SumCounts(groups) ==
    IF groups = {} THEN 0
    ELSE LET g == CHOOSE x \in groups : TRUE
         IN  g.count + SumCounts(groups \ {g})

\* C38: get_stats returns a consistent snapshot: total_posts is the sum of the
\* counts of by_source_method, also when another call commits rows while
\* get_stats runs its statements.
C38_StatsConsistent ==
    ch.pc = "stats" => ch.total_posts = SumCounts(ch.by_source_method)


---------------------------------------------------------------------------
\* the lines of the JSONL backup that carry this key
Lines(k) == {n \in 1..Len(jsonl) : jsonl[n] = k}

\* C37: after any sequence of save_posts calls, calls that failed part-way
\* included, the JSONL backup holds exactly one line for each committed row
\* and no line for a row that was not committed.
C37_BackupMatchesStore ==
    (\A p \in Procs : run[p].pc = "idle") =>
        /\ \A k \in Keys(table) : Cardinality(Lines(k)) = 1
        /\ \A n \in 1..Len(jsonl) : jsonl[n] \in Keys(table)


---------------------------------------------------------------------------
\* The browser driver of a Selenium run: scrape_reddit_selenium,
\* scrape_twitter_profile, scrape_stocktwits and scrape_instagram_selenium.
\* Every call on the driver either answers or raises.

DriverScrolls == 3

SeleniumScrapers == {"reddit", "twitter", "stocktwits", "instagram"}

SeleniumStarts ==
    [pc : {"start"}, scraper : SeleniumScrapers, limit : 1..MaxLimit, driver : {"none"},
     quits : {0}, posts : {0}, scrolls : {0}]

\* driver.quit()
quit(s) == [s EXCEPT !.driver = "quit", !.quits = s.quits + 1]

\* the function returns
returns(s) == [s EXCEPT !.pc = "done"]

\* the scrapers whose try block has "finally: driver.quit()"
has_finally(scraper) == scraper \in {"reddit", "twitter", "stocktwits"}

\* an exception inside the try block: the except clause, then the finally
\* clause where there is one, then the return
except(s) == returns(IF has_finally(s.scraper) THEN quit(s) ELSE s)

\* webdriver.Chrome(options=options) / setup_driver(): no driver, return []
webdriver_Chrome ==
    /\ ch.pc = "start"
    /\ \E ok \in BOOLEAN :
        ch' = IF ~ok THEN returns(ch)
              ELSE [ch EXCEPT !.driver = "open",
                              !.pc = IF ch.scraper = "stocktwits" THEN "cdp" ELSE "get"]
    /\ UNCHANGED <<storeVars, kf, pg>>

\* scrape_stocktwits: the two execute_cdp_cmd calls share the try block of
\* webdriver.Chrome, whose except clause returns []
execute_cdp_cmd ==
    /\ ch.pc = "cdp"
    /\ \E ok \in BOOLEAN :
        ch' = IF ok THEN [ch EXCEPT !.pc = "get"] ELSE returns(ch)
    /\ UNCHANGED <<storeVars, kf, pg>>

\* driver.get(url)
driver_get ==
    /\ ch.pc = "get"
    /\ \E ok \in BOOLEAN :
        ch' = IF ok THEN [ch EXCEPT !.pc = "page"] ELSE except(ch)
    /\ UNCHANGED <<storeVars, kf, pg>>

\* what the page shows: scrape_twitter_profile quits and returns [] on a
\* missing account or a login wall, scrape_stocktwits quits and returns when
\* the page's JSON held enough posts; both returns sit inside the try block,
\* so the finally clause quits once more
first_page ==
    /\ ch.pc = "page"
    /\ \E early \in BOOLEAN :
        /\ early => ch.scraper \in {"twitter", "stocktwits"}
        /\ ch' = IF early
                 THEN returns(quit(quit([ch EXCEPT !.posts =
                            IF ch.scraper = "stocktwits" THEN ch.limit ELSE 0])))
                 ELSE [ch EXCEPT !.pc = "scroll"]
    /\ UNCHANGED <<storeVars, kf, pg>>

\* one pass of the scroll loop: the page is parsed and scrolled, or a call on
\* the driver raises
scroll ==
    /\ ch.pc = "scroll"
    /\ \E o \in {"posts", "nothing", "raise"} :
        ch' = IF o = "raise" THEN except(ch)
              ELSE LET s1 == [ch EXCEPT !.scrolls = ch.scrolls + 1,
                                        !.posts = IF o = "posts" THEN ch.posts + 1
                                                  ELSE ch.posts]
                   IN  IF s1.posts >= s1.limit \/ s1.scrolls >= DriverScrolls
                       THEN [s1 EXCEPT !.pc = "end"] ELSE s1
    /\ UNCHANGED <<storeVars, kf, pg>>

\* the end of the try block without exception: the finally clause, or the
\* driver.quit() that ends the try block of scrape_instagram_selenium
try_end ==
    /\ ch.pc = "end"
    /\ ch' = returns(quit(ch))
    /\ UNCHANGED <<storeVars, kf, pg>>

DriverInit ==
    /\ StoreStart({FALSE}, {TRUE})
    /\ kf = Off
    /\ pg = Off
    /\ ch \in SeleniumStarts

DriverNext ==
    \/ webdriver_Chrome
    \/ execute_cdp_cmd
    \/ driver_get
    \/ first_page
    \/ scroll
    \/ try_end

SpecDriver == DriverInit /\ [][DriverNext]_vars

\* C39: every browser driver a Selenium run started is quit before the run
\* returns, on every path, exceptions and early returns included.
C39_DriverAlwaysQuit ==
    (ch.pc = "done" /\ ch.driver # "none") => ch.driver = "quit"


====
